---------------------------- MODULE Spec2Model ----------------------------
(***************************************************************************)
(* Verification model of the Customer-Agent message pipeline.              *)
(*                                                                         *)
(* The module holds state machines over disjoint groups of variables;      *)
(* each specification moves one group and leaves the others at their       *)
(* initial value:                                                          *)
(*   SpecDecode   PDDChatMessage: frame -> ContextType                     *)
(*   SpecRoute    PDDChannel._process_websocket_message: routing policy    *)
(*   SpecPipe     MessageQueue / MessageConsumer / UserSequentialProcessor *)
(*                on one asyncio event loop                                *)
(*   SpecDispatcherLive  one dispatcher of it, with the loop's fairness    *)
(*   SpecWorker   one dispatcher, handle outcomes and consumer teardown    *)
(*   SpecSession  AutoReplyManager / AutoReplyThread / PDDChannel.init     *)
(*   SpecSessionLive     ... with the fairness of threads and signals      *)
(*   SpecRelogin  BaseRequest._execute_with_retry with concurrent callers  *)
(*   SpecCall     ... and one call on its own                              *)
(*   SpecQueue    MessageQueue: put, get, close, clear                     *)
(*   SpecChain    MessageConsumer._process_single_message: handler chain   *)
(*   SpecPresence SetStatusThread.run: platform status, then the store     *)
(*   SpecReply    AIAutoReplyHandler.handle / CozeBot.reply / send_text    *)
(*   SpecShop     PDDChannel.init of the accounts of a shop: queue names   *)
(*   SpecTransfer CustomerServiceTransferHandler.handle                    *)
(*   SpecHours    BusinessHoursHandler: can_handle and handle              *)
(***************************************************************************)
EXTENDS Integers, Sequences, FiniteSets, TLC

VARIABLES
    \* ---- SpecDecode
    dec_frame,      \* the frame handed to PDDChatMessage(...)
    dec_kind,       \* PDDChatMessage.user_msg_type after construction
    \* ---- SpecRoute
    rt_last,        \* what _process_websocket_message did with the last frame
    rt_queue,       \* the account queue (MessageQueue._queue) as <<kind, uid>> items
    rt_inbox,       \* user_id -> items handed to that user's processor
    rt_nframes,     \* number of frames read so far
    rt_reader,      \* _message_loop: "reading" or "ended"
    rt_dropped,     \* number of frames that raised while being processed
    \* ---- SpecRelogin
    rl_pc,          \* caller -> where its _execute_with_retry stands
    rl_attempt,     \* caller -> the loop variable attempt
    rl_relogin_attempted,   \* caller -> the local flag relogin_attempted
    rl_cookies,     \* caller -> self.cookies of its BaseRequest instance
    rl_result,      \* caller -> what the call returned
    rl_nrequests,   \* caller -> HTTP requests issued by the call
    rl_ncycles,     \* caller -> _relogin_and_update_cookies calls of the call
    rl_cycle,       \* caller -> how that call of _relogin_and_update_cookies went
    rl_first,       \* caller -> what the first request of the call ended in
    rl_last,        \* caller -> what the latest request of the call ended in
    rl_reissued,    \* caller -> requests issued after the cookies were renewed
    rl_delivered,   \* caller -> requests of the call that the platform carried out
    db_cookies,     \* the account's cookies in the database
    login_calls,    \* calls made to the login subsystem: <<caller, which>>
    \* ---- SpecSession
    running_accounts,   \* AutoReplyManager.running_accounts: account -> thread (0: no key)
    db_accounts,    \* the accounts table: account -> "missing", or the row's status
    cm_queue,       \* message_queue_manager.queues[pdd_<shop_id>]: "none", "open", "closed"
    ss_thread,      \* thread -> its account, where its run() stands, its stop event
    ss_signals,     \* queued Qt signals not yet delivered to the main thread
    ss_main,        \* what the main (UI) thread is doing
    cm_consumer,    \* MessageConsumerManager: consumers / consumer_tasks of the queue
    ss_op,          \* the last manager or channel call and its outcome
    ss_hist,        \* account -> counts of the start calls, and whether a stop was called
    \* ---- SpecPipe
    pp_queue,       \* MessageQueue._queue of the account queue: message numbers
    pp_user,        \* message number -> from_uid of the message ("none": not put yet)
    pp_ready,       \* the event loop's ready queue: tasks in the order they will run
    pp_consumer,    \* where MessageConsumer.start stands
    pp_reaper,      \* where _cleanup_inactive_processors stands
    pp_user_processors, \* MessageConsumer.user_processors: user -> processor (0: no key)
    pp_proc,        \* the UserSequentialProcessor objects
    pp_worker,      \* the _process_user_messages tasks
    pp_started,     \* the messages in the order their handler chain was entered
    \* ---- SpecQueue
    mq_queue,       \* MessageQueue._queue: item numbers
    mq_closed,      \* MessageQueue._closed
    mq_getter,      \* getter -> where its get() call stands
    mq_accepted,    \* the items for which put returned an id, in put order
    mq_got,         \* the items returned by get, in the order returned
    mq_cleared,     \* clear() was called
    mq_last,        \* the last put/get/close/clear and its outcome
    \* ---- SpecChain
    ch_event,       \* the event handed to _process_single_message
    ch_invoked,     \* the handlers whose handle was called for it, in call order
    ch_handled,     \* the local `handled` at the end of _process_single_message
    \* ---- SpecPresence
    pr_db,          \* the accounts table: user_id -> the row's status and cookies
    pr_platform,    \* the customer-service status the platform accepted last
    pr_thread,      \* SetStatusThread -> where its run() stands, with its arguments
    pr_signals,     \* thread -> the signal its run() emitted ("none": not yet)
    pr_last,        \* what the latest step of a run() did to the accounts table
    \* ---- SpecReply
    rp_bot,         \* AIAutoReplyHandler.bot ("unset": the handler is not built yet)
    rp_sessions,    \* the user_sessions table: user key -> conversation id (0: no row)
    rp_nconv,       \* the conversations the agent service created so far
    rp_created,     \* user key -> the conversation ids created for it
    rp_inv,         \* the handle() invocations, each with the send_text calls it made
    \* ---- SpecWorker
    wk_outcome,     \* message -> how its handle call ended ("none": not yet)
    \* ---- SpecShop
    sh_session,     \* account -> where its PDDChannel.init stands
    sh_nstart,      \* account -> start_account calls so far
    sh_consumers,   \* queue name -> the entry of consumers / consumer_tasks
    sh_queues,      \* queue name -> the entry of MessageQueueManager.queues
    sh_last,        \* the account whose init took the latest step, and the step
    \* ---- SpecTransfer
    tr_cs_list,     \* what getAssignCsList returned to the last handle call
    tr_from,        \* from_uid of the last keyword event
    tr_calls,       \* the calls on SendMessage the last handle call made, in order
    tr_ret,         \* what the last handle call returned
    tr_invoked,     \* the handlers whose handle ran for the last keyword event
    tr_n,           \* keyword events processed so far
    \* ---- SpecHours
    bh_hours,       \* business_hours of the handler: start and end as (hour, minute)
    bh_now,         \* datetime.now().time() at the last event: (hour, minute, second)
    bh_from,        \* from_uid of the last event
    bh_invoked,     \* the handlers whose handle ran for the last event
    bh_sent,        \* the send_text calls made for the last event
    bh_n            \* events processed so far

decodeVars == <<dec_frame, dec_kind>>
routeVars  == <<rt_last, rt_queue, rt_inbox, rt_nframes, rt_reader, rt_dropped>>
reloginVars == <<rl_pc, rl_attempt, rl_relogin_attempted, rl_cookies, rl_result,
                 rl_nrequests, rl_ncycles, rl_cycle, rl_first, rl_last, rl_reissued,
                 rl_delivered, db_cookies, login_calls>>
sessionVars == <<db_accounts, cm_queue, running_accounts, ss_thread, ss_signals, ss_main, cm_consumer,
                 ss_op, ss_hist>>
pipeVars == <<pp_queue, pp_user, pp_ready, pp_consumer, pp_reaper, pp_user_processors,
              pp_proc, pp_worker, pp_started>>
queueVars == <<mq_queue, mq_closed, mq_getter, mq_accepted, mq_got, mq_cleared, mq_last>>
chainVars == <<ch_event, ch_invoked, ch_handled>>
presenceVars == <<pr_db, pr_platform, pr_thread, pr_signals, pr_last>>
replyVars == <<rp_bot, rp_sessions, rp_nconv, rp_created, rp_inv>>
workVars == <<wk_outcome>>
shopVars == <<sh_session, sh_nstart, sh_consumers, sh_queues, sh_last>>
transferVars == <<tr_cs_list, tr_from, tr_calls, tr_ret, tr_invoked, tr_n>>
hoursVars == <<bh_hours, bh_now, bh_from, bh_invoked, bh_sent, bh_n>>
laterVars == <<shopVars, transferVars, hoursVars>>
unitVars == <<queueVars, chainVars, presenceVars, replyVars, workVars, laterVars>>
vars == <<decodeVars, routeVars, reloginVars, sessionVars, pipeVars, unitVars>>

None == 0 - 1   \* Python None / an absent JSON field, for integer fields

-----------------------------------------------------------------------------
(* bridge/context.py: ContextType *)

ContextType ==
    { "TEXT", "IMAGE", "VIDEO", "EMOTION", "GOODS_CARD", "GOODS_INQUIRY",
      "GOODS_SPEC", "ORDER_INFO", "SYSTEM_STATUS", "MALL_SYSTEM_MSG",
      "SYSTEM_HINT", "SYSTEM_BIZ", "MALL_CS", "WITHDRAW", "AUTH", "TRANSFER" }

-----------------------------------------------------------------------------
(* Channel/pinduoduo/pdd_message.py: the decoder *)

Responses == { "push", "auth", "mall_system_msg", "other" }
\* 7 stands for the type codes no branch of _process_message names.
TypeCodes == { 0, 1, 5, 14, 24, 64, 1002, 7, None }
SubTypes  == { 0, 1, 2, None }
Roles     == { "user", "mall_cs", "none" }

Frames == [ response : Responses, type : TypeCodes, sub_type : SubTypes,
            role : Roles ]

\* PDDChatMessage._process_message: the kind chosen from response, type and
\* sub_type.
process_message(msg) ==
    IF msg.response = "push" THEN
        IF msg.type = 0 THEN
            IF msg.sub_type = 1 THEN "ORDER_INFO"
            ELSE IF msg.sub_type = 0 THEN "GOODS_INQUIRY"
            ELSE "TEXT"
        ELSE IF msg.type = 1 THEN "IMAGE"
        ELSE IF msg.type = 14 THEN "VIDEO"
        ELSE IF msg.type = 1002 THEN "WITHDRAW"
        ELSE IF msg.type = 5 THEN "EMOTION"
        ELSE IF msg.type = 64 THEN "GOODS_SPEC"
        ELSE IF msg.type = 24 THEN "TRANSFER"
        ELSE "SYSTEM_STATUS"
    ELSE IF msg.response = "auth" THEN "AUTH"
    ELSE IF msg.response = "mall_system_msg" THEN "MALL_SYSTEM_MSG"
    ELSE "SYSTEM_STATUS"

\* A decoder that lost the early return of __init__ after the mall_cs check.
PDDChatMessage_NoShortCircuit(msg) == process_message(msg)

\* PDDChatMessage.__init__: a frame authored by another seat is MALL_CS,
\* everything else goes through _process_message.
PDDChatMessage(msg) ==
    IF msg.role = "mall_cs" THEN "MALL_CS" ELSE process_message(msg)

DecodeInit ==
    /\ dec_frame = [ response |-> "other", type |-> None, sub_type |-> None,
                     role |-> "none" ]
    /\ dec_kind = "SYSTEM_STATUS"

\* One construction of PDDChatMessage on an arbitrary frame.
DecodeFrame ==
    \E f \in Frames :
        /\ dec_frame' = f
        /\ dec_kind' = PDDChatMessage(f)
        /\ UNCHANGED <<routeVars, reloginVars, sessionVars, pipeVars, unitVars>>

-----------------------------------------------------------------------------
(* Channel/pinduoduo/pdd_chnnel.py: routing of a decoded frame *)

RtMaxFrames == 2            \* frames read in one run of the routing model
FromUids == { "U1", "U2" }  \* end users (message.from.uid)

max_size == 1000            \* MessageQueue(max_size): deque(maxlen=max_size)

\* PDDChannel._should_process_immediately
should_process_immediately(kind) ==
    kind \in { "SYSTEM_STATUS", "AUTH", "WITHDRAW", "SYSTEM_HINT", "MALL_CS",
               "TRANSFER" }

\* A queue set that lost one member.
should_queue_message_NoSpec(kind) ==
    kind \in { "TEXT", "IMAGE", "VIDEO", "EMOTION", "GOODS_INQUIRY",
               "ORDER_INFO", "GOODS_CARD" }

\* PDDChannel._should_queue_message
should_queue_message(kind) ==
    kind \in { "TEXT", "IMAGE", "VIDEO", "EMOTION", "GOODS_INQUIRY",
               "ORDER_INFO", "GOODS_CARD", "GOODS_SPEC" }

\* The handler without the send of its TRANSFER branch.
handle_immediate_message_WithdrawOnly(kind, uid) ==
    IF kind = "WITHDRAW" THEN << <<uid, "[rose]">> >> ELSE << >>

\* PDDChannel._handle_immediate_message: the texts it sends to from_uid.
handle_immediate_message(kind, uid) ==
    IF kind \in { "WITHDRAW", "TRANSFER" } THEN << <<uid, "[rose]">> >>
    ELSE << >>

\* MessageQueue.put on the deque: append; a full deque(maxlen) drops its head.
\* collections.deque(maxlen=n).append: a full deque drops its head.
deque_maxlen_append(q, item, n) ==
    IF Len(q) >= n THEN Append(Tail(q), item) ELSE Append(q, item)

deque_append(q, item) == deque_maxlen_append(q, item, max_size)

\* MessageConsumer._get_user_id: channel.value + "_" + from_uid
get_user_id(uid) == <<"pinduoduo", uid>>

UserIds == { get_user_id(u) : u \in FromUids }

RouteInit ==
    /\ rt_last = [ kind |-> "SYSTEM_STATUS", uid |-> "U1", route |-> "none",
                   immediate_calls |-> 0, sent |-> << >> ]
    /\ rt_queue = << >>
    /\ rt_inbox = [ k \in UserIds |-> << >> ]
    /\ rt_nframes = 0
    /\ rt_reader = "reading"
    /\ rt_dropped = 0

\* PDDChannel._process_websocket_message on one well-formed frame from uid.
ProcessWebsocketMessage ==
    \E f \in Frames, uid \in FromUids :
        LET kind == PDDChatMessage(f) IN
        /\ rt_reader = "reading"
        /\ rt_nframes < RtMaxFrames
        /\ rt_nframes' = rt_nframes + 1
        /\ IF should_process_immediately(kind) THEN
               /\ rt_last' = [ kind |-> kind, uid |-> uid,
                               route |-> "immediate", immediate_calls |-> 1,
                               sent |-> handle_immediate_message(kind, uid) ]
               /\ UNCHANGED rt_queue
           ELSE IF should_queue_message(kind) THEN
               /\ rt_last' = [ kind |-> kind, uid |-> uid, route |-> "queued",
                               immediate_calls |-> 0, sent |-> << >> ]
               /\ rt_queue' = deque_append(rt_queue, <<kind, uid>>)
           ELSE
               /\ rt_last' = [ kind |-> kind, uid |-> uid, route |-> "ignored",
                               immediate_calls |-> 0, sent |-> << >> ]
               /\ UNCHANGED rt_queue
        /\ UNCHANGED <<rt_inbox, rt_reader, rt_dropped, decodeVars, reloginVars, sessionVars, pipeVars, unitVars>>

\* Frames on which _process_websocket_message raises, and the exception:
\* json.loads on text that is not JSON, json.loads on bytes that are not
\* UTF-8, and PDDChatMessage on JSON that is not an object (msg.get).
MalformedFrames == {"not_json", "bad_utf8", "not_object"}

FrameError(f) ==
    CASE f = "not_json"   -> "JSONDecodeError"
      [] f = "bad_utf8"   -> "UnicodeDecodeError"
      [] f = "not_object" -> "AttributeError"

\* The except clauses of _process_websocket_message: JSONDecodeError, then
\* Exception; every error a frame can raise is an Exception.
process_websocket_message_catches_JsonOnly(exc) == exc = "JSONDecodeError"

process_websocket_message_catches(exc) ==
    exc = "JSONDecodeError" \/ exc \in {"UnicodeDecodeError", "AttributeError"}

\* _process_websocket_message on one malformed frame: the error is logged and
\* nothing else happens; an error the handler did not catch would reach
\* _message_loop, whose except clause logs it and ends the loop.
ProcessMalformedFrame ==
    \E f \in MalformedFrames :
        /\ rt_reader = "reading"
        /\ rt_nframes < RtMaxFrames
        /\ rt_nframes' = rt_nframes + 1
        /\ rt_dropped' = rt_dropped + 1
        /\ rt_last' = [ kind |-> f, uid |-> "U1", route |-> "dropped",
                        immediate_calls |-> 0, sent |-> << >> ]
        /\ rt_reader' = IF process_websocket_message_catches(FrameError(f))
                        THEN "reading" ELSE "ended"
        /\ UNCHANGED <<rt_queue, rt_inbox, decodeVars, reloginVars, sessionVars, pipeVars, unitVars>>

\* MessageConsumer.start + _process_message: the head of the account queue is
\* handed to the processor of its user id.
RouteConsume ==
    /\ rt_queue # << >>
    /\ LET item == Head(rt_queue)
           key == get_user_id(item[2]) IN
       /\ rt_queue' = Tail(rt_queue)
       /\ rt_inbox' = [ rt_inbox EXCEPT ![key] = Append(@, item) ]
    /\ UNCHANGED <<rt_last, rt_nframes, rt_reader, rt_dropped, decodeVars, reloginVars, sessionVars, pipeVars, unitVars>>

-----------------------------------------------------------------------------
(* Channel/pinduoduo/utils/API/base_request.py: the platform client.       *)
(* Every caller is one BaseRequest instance (SendMessage, GetToken, ...)   *)
(* bound to the same account and running one get/post; callers run on      *)
(* different threads (the reader loop of the account, the loop that owns   *)
(* the shop's consumer), so their steps interleave freely.                 *)

RlCallers == 2          \* concurrent calls of the one account
Callers == 1..RlCallers

max_retries == 3        \* BaseRequest(max_retries=3)

\* What one request_func() can end in: an exception, or a response with a
\* status and, for 200, a body. Bodies: a success envelope, the expired
\* envelope with error_code/error_msg at the top level, the expired envelope
\* of the wire contract ({result: {error_code, error}}), not JSON at all.
Outcomes ==
    [ kind : {"exception"}, retryable : BOOLEAN ] \cup
    [ kind : {"response"}, status : {200},
      body : {"ok", "expired_top", "expired_result", "not_json"} ] \cup
    [ kind : {"response"}, status : {404, 408, 429, 500}, body : {"error_page"} ]

\* Whether the platform carried the request out (for send_message: delivered
\* the message to the end-user): it did when it answers with the success
\* envelope, it did not when it answers anything else, and when the request
\* ends in an exception (a read timeout, a connection reset while waiting
\* for the response) either is possible.
carried_out_possible(o, carried_out) ==
    IF o.kind = "exception" THEN TRUE
    ELSE carried_out = (o.status = 200 /\ o.body = "ok")

\* requests.Response.__bool__ is Response.ok: true below 400.
response_truthy(status) == status < 400

\* BaseRequest._handle_response: the parsed body, or "none".
handle_response(o) ==
    IF o.status # 200 THEN "none"
    ELSE IF o.body = "not_json" THEN "none"
    ELSE o.body

\* BaseRequest._is_session_expired on the parsed body: top-level error_code
\* 43001 with the expiry text in top-level error_msg.
is_session_expired(data) == data = "expired_top"

\* BaseRequest._should_retry(response=...)
should_retry_response(status) ==
    response_truthy(status) /\ (status >= 500 \/ status \in {429, 408, 502, 503, 504})

\* BaseRequest._should_retry(exception=...): true for requests.ConnectionError,
\* Timeout, HTTPError and TooManyRedirects.
should_retry_exception_Any(retryable) == TRUE
should_retry_exception(retryable) == retryable

RlFinish(c, res) ==
    /\ rl_pc' = [rl_pc EXCEPT ![c] = "done"]
    /\ rl_result' = [rl_result EXCEPT ![c] = res]

\* `continue` of the for loop: the next attempt, or the fall-through
\* `return None` when range(max_retries + 1) is exhausted.
RlContinue(c) ==
    IF rl_attempt[c] < max_retries
    THEN /\ rl_attempt' = [rl_attempt EXCEPT ![c] = @ + 1]
         /\ rl_pc' = [rl_pc EXCEPT ![c] = "request"]
         /\ UNCHANGED rl_result
    ELSE /\ RlFinish(c, "none")
         /\ UNCHANGED rl_attempt

\* The first condition of the session check in _execute_with_retry: a parsed
\* body that _is_session_expired recognises.
session_expired_seen(o) ==
    handle_response(o) # "none" /\ is_session_expired(handle_response(o))

\* `not relogin_attempted` of the session check (self.shop_id and
\* self.user_id are set: the callers are bound to an account).
relogin_allowed_Always(c) == TRUE
relogin_allowed(c) == ~rl_relogin_attempted[c]

NoOutcome == [ kind |-> "none" ]

ReloginInit ==
    /\ rl_pc = [c \in Callers |-> "idle"]
    /\ rl_attempt = [c \in Callers |-> 0]
    /\ rl_relogin_attempted = [c \in Callers |-> FALSE]
    /\ rl_cookies = [c \in Callers |-> 0]
    /\ rl_result = [c \in Callers |-> "none"]
    /\ rl_nrequests = [c \in Callers |-> 0]
    /\ rl_ncycles = [c \in Callers |-> 0]
    /\ rl_cycle = [c \in Callers |-> "none"]
    /\ rl_first = [c \in Callers |-> NoOutcome]
    /\ rl_last = [c \in Callers |-> NoOutcome]
    /\ rl_reissued = [c \in Callers |-> 0]
    /\ rl_delivered = [c \in Callers |-> 0]
    /\ db_cookies = 0
    /\ login_calls = << >>

\* BaseRequest.__init__ + post/get: cookies are read from the database and
\* _execute_with_retry starts with attempt 0.
RlCall(c) ==
    /\ rl_pc[c] = "idle"
    /\ rl_pc' = [rl_pc EXCEPT ![c] = "request"]
    /\ rl_cookies' = [rl_cookies EXCEPT ![c] = db_cookies]
    /\ UNCHANGED <<rl_attempt, rl_relogin_attempted, rl_result, rl_nrequests,
                   rl_ncycles, rl_cycle, rl_first, rl_last, rl_reissued,
                   rl_delivered, db_cookies, login_calls>>
    /\ UNCHANGED <<decodeVars, routeVars, sessionVars, pipeVars, unitVars>>

\* One pass of the loop body of _execute_with_retry: request_func() and what
\* follows, up to the next request, the return, or the call of
\* _relogin_and_update_cookies (which starts with refresh_pdd_cookies).
RlRequest(c) ==
    /\ rl_pc[c] = "request"
    /\ \E o \in Outcomes, carried_out \in BOOLEAN :
        /\ carried_out_possible(o, carried_out)
        /\ rl_delivered' = [rl_delivered EXCEPT
                               ![c] = IF carried_out THEN @ + 1 ELSE @]
        /\ rl_nrequests' = [rl_nrequests EXCEPT ![c] = @ + 1]
        /\ rl_first' = [rl_first EXCEPT ![c] = IF rl_nrequests[c] = 0 THEN o ELSE @]
        /\ rl_last' = [rl_last EXCEPT ![c] = o]
        /\ rl_reissued' = [rl_reissued EXCEPT
                              ![c] = IF rl_cycle[c] \in {"refreshed", "logged_in"}
                                     THEN @ + 1 ELSE @]
        /\ IF o.kind = "exception" THEN
               /\ IF rl_attempt[c] < max_retries /\ should_retry_exception(o.retryable)
                  THEN RlContinue(c)
                  ELSE RlFinish(c, "none") /\ UNCHANGED rl_attempt
               /\ UNCHANGED <<rl_relogin_attempted, rl_ncycles, rl_cycle, login_calls>>
           ELSE IF response_truthy(o.status) /\ o.status = 200 THEN
               IF session_expired_seen(o) /\ relogin_allowed(c)
               THEN /\ rl_relogin_attempted' = [rl_relogin_attempted EXCEPT ![c] = TRUE]
                    /\ rl_pc' = [rl_pc EXCEPT ![c] = "refresh"]
                    /\ rl_ncycles' = [rl_ncycles EXCEPT ![c] = @ + 1]
                    /\ rl_cycle' = [rl_cycle EXCEPT ![c] = "running"]
                    /\ login_calls' = Append(login_calls, <<c, "refresh">>)
                    /\ UNCHANGED <<rl_attempt, rl_result>>
               ELSE /\ RlFinish(c, handle_response(o))
                    /\ UNCHANGED <<rl_attempt, rl_relogin_attempted, rl_ncycles,
                                   rl_cycle, login_calls>>
           ELSE
               /\ IF rl_attempt[c] < max_retries /\ should_retry_response(o.status)
                  THEN RlContinue(c)
                  ELSE RlFinish(c, handle_response(o)) /\ UNCHANGED rl_attempt
               /\ UNCHANGED <<rl_relogin_attempted, rl_ncycles, rl_cycle, login_calls>>
    /\ UNCHANGED <<rl_cookies, db_cookies>>
    /\ UNCHANGED <<decodeVars, routeVars, sessionVars, pipeVars, unitVars>>

\* The new cookies are stored in the instance and in the database, and the
\* loop continues.
RlReloginSucceeded(c, how) ==
    /\ rl_cookies' = [rl_cookies EXCEPT ![c] = Len(login_calls)]
    /\ db_cookies' = Len(login_calls)
    /\ rl_cycle' = [rl_cycle EXCEPT ![c] = how]
    /\ RlContinue(c)

\* refresh_pdd_cookies returns: with cookies, or without, and then login_pdd
\* is called (the account has a password).
RlRefreshReturns(c) ==
    /\ rl_pc[c] = "refresh"
    /\ \E ok \in BOOLEAN :
        IF ok THEN /\ RlReloginSucceeded(c, "refreshed")
                   /\ UNCHANGED login_calls
        ELSE /\ rl_pc' = [rl_pc EXCEPT ![c] = "login"]
             /\ login_calls' = Append(login_calls, <<c, "login">>)
             /\ UNCHANGED <<rl_attempt, rl_result, rl_cookies, rl_cycle, db_cookies>>
    /\ UNCHANGED <<rl_relogin_attempted, rl_nrequests, rl_ncycles, rl_first, rl_last,
                   rl_reissued, rl_delivered>>
    /\ UNCHANGED <<decodeVars, routeVars, sessionVars, pipeVars, unitVars>>

\* login_pdd returns: with cookies, or without, and then the call returns the
\* expired response.
RlLoginReturns(c) ==
    /\ rl_pc[c] = "login"
    /\ \E ok \in BOOLEAN :
        IF ok THEN RlReloginSucceeded(c, "logged_in")
        ELSE /\ RlFinish(c, "expired_top")
             /\ rl_cycle' = [rl_cycle EXCEPT ![c] = "failed"]
             /\ UNCHANGED <<rl_attempt, rl_cookies, db_cookies>>
    /\ UNCHANGED <<rl_relogin_attempted, rl_nrequests, rl_ncycles, rl_first, rl_last,
                   rl_reissued, rl_delivered, login_calls>>
    /\ UNCHANGED <<decodeVars, routeVars, sessionVars, pipeVars, unitVars>>

-----------------------------------------------------------------------------
(* ui/auto_reply_ui.py: AutoReplyManager and AutoReplyThread;              *)
(* Channel/pinduoduo/pdd_chnnel.py: PDDChannel.init and its cleanup;       *)
(* Message/message_consumer.py: MessageConsumerManager.                    *)
(*                                                                         *)
(* The manager runs on the main thread: its methods and the slots of the   *)
(* thread signals are executed one at a time, in the order the signals     *)
(* were queued. Every AutoReplyThread runs PDDChannel.start_account on an  *)
(* event loop of its own. All accounts belong to one shop, so they share   *)
(* the queue name pdd_<shop_id> and its consumer.                          *)

SsMaxStarts == 2        \* start_auto_reply calls in one run of the model
Accounts == { "acc1" }
Threads == 1..SsMaxStarts

\* ws: PDDChannel.ws; after_stop: stop_account was the last thing that
\* happened to the channel.
\* ended: the exit path of start_account/init the thread took.
NoThread == [ acct |-> "acc1", st |-> "none", stop_event |-> FALSE, ws |-> "none",
              after_stop |-> FALSE, ended |-> "none" ]

\* A thread whose run() has been entered and whose PDDChannel.init has not
\* returned.
LiveStates == { "started", "connecting", "open" }

ThreadsOf(a) == { t \in Threads : ss_thread[t].st # "none" /\ ss_thread[t].acct = a }
LiveThreadsOf(a) == { t \in ThreadsOf(a) : ss_thread[t].st \in LiveStates }

\* What the accounts table can hold for an account: no row, or a row whose
\* status is online (1) or offline (3).
StoreStates == { "missing", "online", "offline" }

SessionInit ==
    /\ db_accounts = [a \in Accounts |-> "online"]
    /\ cm_queue = "none"
    /\ running_accounts = [a \in Accounts |-> 0]
    /\ ss_thread = [t \in Threads |-> NoThread]
    /\ ss_signals = << >>
    /\ ss_main = <<"idle">>
    /\ cm_consumer = [ exists |-> FALSE, is_running |-> FALSE, task |-> 0,
                       after_stop |-> FALSE ]
    /\ ss_op = [ name |-> "none", acct |-> "acc1", result |-> "none",
                 after_same |-> FALSE, changed |-> FALSE ]
    /\ ss_hist = [a \in Accounts |->
                    [ nstart |-> 0, naccept |-> 0, stopped |-> FALSE, prev |-> "none" ]]

\* `account_key in self.running_accounts`, for a check that was dropped
\* (always absent) and for one that was inverted away (always present).
key_in_running_Never(a) == FALSE
key_in_running_Always(a) == TRUE

\* `account_key in self.running_accounts`
key_in_running(a) == running_accounts[a] # 0

\* A stop_consumer that leaves the consumer and its task as they are.
stop_consumer_Skip(c) == c

\* MessageConsumerManager.stop_consumer: consumer.stop() if the queue has a
\* consumer; then the task, if one is registered, is cancelled, awaited and
\* deleted. The entry of `consumers` stays. after_stop: stop_consumer was
\* the last call made for the queue.
stop_consumer(c) ==
    [ c EXCEPT !.is_running = IF c.exists THEN FALSE ELSE @, !.task = 0,
               !.after_stop = TRUE ]

\* consumers, the consumer's is_running, and consumer_tasks
ConsumerRegistry(c) == <<c.exists, c.is_running, c.task>>

\* MessageQueueManager.get_or_create_queue, called by MessageConsumer.start
\* when the task of a new consumer starts.
get_or_create_queue(q) == IF q = "none" THEN "open" ELSE q

\* PDDChannel._setup_message_consumer: an existing consumer is kept as it
\* is; otherwise one is created and its task started on the loop of thread t.
setup_message_consumer(c, t) ==
    IF c.exists THEN c
    ELSE [ exists |-> TRUE, is_running |-> TRUE, task |-> t, after_stop |-> FALSE ]

Hist(a, name, accepted) ==
    [ ss_hist EXCEPT ![a] =
        [ nstart |-> @.nstart + (IF name = "start" THEN 1 ELSE 0),
          naccept |-> @.naccept + (IF accepted THEN 1 ELSE 0),
          stopped |-> @.stopped \/ name \in {"stop", "stop_all"},
          prev |-> name ] ]

\* The accounts table is edited (DatabaseManager.delete_account,
\* add_account, update_account_status) before the account is started for
\* the first time.
EditAccount(a) ==
    /\ ss_main = <<"idle">>
    /\ ss_hist[a].nstart = 0
    /\ \E v \in StoreStates \ {db_accounts[a]} :
          db_accounts' = [db_accounts EXCEPT ![a] = v]
    /\ UNCHANGED <<cm_queue, running_accounts, ss_thread, ss_signals, ss_main,
                   cm_consumer, ss_op, ss_hist>>
    /\ UNCHANGED <<decodeVars, routeVars, reloginVars, pipeVars, unitVars>>

\* AutoReplyManager.start_auto_reply
StartAutoReply(a) ==
    /\ ss_main = <<"idle">>
    /\ ss_hist[a].nstart < SsMaxStarts
    /\ IF key_in_running(a) THEN
           /\ ss_op' = [ name |-> "start", acct |-> a, result |-> "false",
                         after_same |-> ss_hist[a].prev = "start", changed |-> FALSE ]
           /\ ss_hist' = Hist(a, "start", FALSE)
           /\ UNCHANGED <<running_accounts, ss_thread>>
       ELSE
           \E t \in Threads :
               /\ ss_thread[t].st = "none"
               /\ \A u \in Threads : u < t => ss_thread[u].st # "none"
               /\ ss_thread' = [ss_thread EXCEPT ![t] =
                                   [ acct |-> a, st |-> "started",
                                     stop_event |-> FALSE, ws |-> "none",
                                     after_stop |-> FALSE, ended |-> "none" ]]
               /\ running_accounts' = [running_accounts EXCEPT ![a] = t]
               /\ ss_op' = [ name |-> "start", acct |-> a, result |-> "true",
                             after_same |-> ss_hist[a].prev = "start",
                             changed |-> TRUE ]
               /\ ss_hist' = Hist(a, "start", TRUE)
    /\ UNCHANGED <<ss_signals, ss_main, cm_consumer>>
    /\ UNCHANGED <<db_accounts, cm_queue, decodeVars, routeVars, reloginVars, pipeVars,
                   unitVars>>

\* PDDChannel.request_stop, called from the main thread through
\* AutoReplyThread.stop: it sets the event only when the thread already has a
\* channel whose init has created it.
request_stop(th) ==
    IF th.st \in {"connecting", "open"} THEN [ th EXCEPT !.stop_event = TRUE ]
    ELSE th

\* QThread.isRunning
isRunning(th) == th.st \in {"started", "connecting", "open"}

\* AutoReplyManager.stop_auto_reply up to thread.wait(5000): the early return
\* for an account that is not running, the KeyError of the lookup (caught,
\* logged as a failure), or thread.stop() and the start of the wait.
StopAutoReplyCall(a) ==
    /\ ss_main = <<"idle">>
    /\ IF ~key_in_running(a) THEN
           /\ ss_op' = [ name |-> "stop", acct |-> a, result |-> "not_running",
                         after_same |-> ss_hist[a].prev = "stop", changed |-> FALSE ]
           /\ ss_hist' = Hist(a, "stop", FALSE)
           /\ UNCHANGED <<ss_thread, ss_main>>
       ELSE IF running_accounts[a] = 0 THEN
           /\ ss_op' = [ name |-> "stop", acct |-> a, result |-> "error",
                         after_same |-> ss_hist[a].prev = "stop", changed |-> FALSE ]
           /\ ss_hist' = Hist(a, "stop", FALSE)
           /\ UNCHANGED <<ss_thread, ss_main>>
       ELSE
           LET t == running_accounts[a] IN
           /\ ss_thread' = [ss_thread EXCEPT ![t] = request_stop(@)]
           /\ ss_main' = <<"stop_wait", a, t, ss_hist[a].prev = "stop">>
           /\ UNCHANGED <<ss_op, ss_hist>>
    /\ UNCHANGED <<running_accounts, ss_signals, cm_consumer>>
    /\ UNCHANGED <<db_accounts, cm_queue, decodeVars, routeVars, reloginVars, pipeVars,
                   unitVars>>

\* thread.wait(5000) returns, because the thread has finished or because the
\* five seconds are over, and the key is deleted.
StopAutoReplyReturn ==
    /\ ss_main[1] = "stop_wait"
    /\ LET a == ss_main[2] IN
       /\ running_accounts' = [running_accounts EXCEPT ![a] = 0]
       /\ ss_op' = [ name |-> "stop", acct |-> a, result |-> "true",
                     after_same |-> ss_main[4], changed |-> TRUE ]
       /\ ss_hist' = Hist(a, "stop", FALSE)
    /\ ss_main' = <<"idle">>
    /\ UNCHANGED <<ss_thread, ss_signals, cm_consumer>>
    /\ UNCHANGED <<db_accounts, cm_queue, decodeVars, routeVars, reloginVars, pipeVars,
                   unitVars>>

\* AutoReplyManager.stop_all up to the waits.
StopAllCall ==
    /\ ss_main = <<"idle">>
    /\ ss_thread' = [t \in Threads |->
                        IF /\ \E a \in Accounts : running_accounts[a] = t
                           /\ isRunning(ss_thread[t])
                        THEN request_stop(ss_thread[t]) ELSE ss_thread[t]]
    /\ ss_main' = <<"stop_all_wait">>
    /\ UNCHANGED <<running_accounts, ss_signals, cm_consumer, ss_op, ss_hist>>
    /\ UNCHANGED <<db_accounts, cm_queue, decodeVars, routeVars, reloginVars, pipeVars,
                   unitVars>>

\* Every thread.wait(5000) of stop_all has returned; running_accounts.clear().
StopAllReturn ==
    /\ ss_main = <<"stop_all_wait">>
    /\ running_accounts' = [a \in Accounts |-> 0]
    /\ ss_op' = [ name |-> "stop_all", acct |-> "acc1", result |-> "true",
                  after_same |-> FALSE, changed |-> TRUE ]
    /\ ss_hist' = [a \in Accounts |->
                     [ ss_hist[a] EXCEPT !.stopped = TRUE, !.prev = "stop_all" ]]
    /\ ss_main' = <<"idle">>
    /\ UNCHANGED <<ss_thread, ss_signals, cm_consumer>>
    /\ UNCHANGED <<db_accounts, cm_queue, decodeVars, routeVars, reloginVars, pipeVars,
                   unitVars>>

\* _on_connection_failed / _on_thread_finished: the slot of the oldest
\* queued signal runs on the main thread and deletes the key of the account.
DeliverSignal ==
    /\ ss_main = <<"idle">>
    /\ ss_signals # << >>
    /\ LET a == Head(ss_signals)[2] IN
       running_accounts' = [running_accounts EXCEPT ![a] = 0]
    /\ ss_signals' = Tail(ss_signals)
    /\ UNCHANGED <<ss_thread, ss_main, cm_consumer, ss_op, ss_hist>>
    /\ UNCHANGED <<db_accounts, cm_queue, decodeVars, routeVars, reloginVars, pipeVars,
                   unitVars>>

\* The end of PDDChannel.init and of AutoReplyThread.run: the finally block
\* runs _cleanup_resources (stop_consumer, ws = None), run() returns and the
\* thread emits finished. how: the exit path; on "connect_failed"
\* on_failure was called first.
ThreadEnds(t, how) ==
    /\ ss_thread' = [ss_thread EXCEPT ![t] = [ @ EXCEPT !.st = "finished", !.ws = "none",
                                                        !.ended = how ]]
    /\ cm_consumer' = stop_consumer(cm_consumer)
    /\ ss_signals' =
          ss_signals \o
          (IF how = "connect_failed" THEN << <<"connection_failed", ss_thread[t].acct>> >> ELSE << >>)
          \o << <<"finished", ss_thread[t].acct>> >>

\* AutoReplyThread.run up to the connection attempt: the channel is created,
\* start_account looks the account up (a missing account ends the thread
\* through on_failure, without init), init creates the stop event and sets up
\* the consumer of the queue.
ThreadRun(t) ==
    /\ ss_thread[t].st = "started"
    /\ LET account_info == db_accounts[ss_thread[t].acct] IN
        IF account_info # "missing" THEN
            /\ ss_thread' = [ss_thread EXCEPT ![t].st = "connecting"]
            /\ cm_consumer' = setup_message_consumer(cm_consumer, t)
            /\ cm_queue' = IF cm_consumer.exists THEN cm_queue
                            ELSE get_or_create_queue(cm_queue)
            /\ UNCHANGED ss_signals
        ELSE
            /\ ss_thread' = [ss_thread EXCEPT ![t].st = "finished",
                                              ![t].ended = "no_account"]
            /\ ss_signals' = ss_signals \o
                  << <<"connection_failed", ss_thread[t].acct>>,
                     <<"finished", ss_thread[t].acct>> >>
            /\ UNCHANGED <<cm_consumer, cm_queue>>
    /\ UNCHANGED <<running_accounts, ss_main, ss_op, ss_hist>>
    /\ UNCHANGED <<db_accounts, decodeVars, routeVars, reloginVars, pipeVars, unitVars>>

\* websockets.connect succeeds: self.ws is set and on_success is called.
ConnectSucceeds(t) ==
    /\ ss_thread[t].st = "connecting"
    /\ ss_thread' = [ss_thread EXCEPT ![t] =
                        [ @ EXCEPT !.st = "open", !.ws = "open", !.after_stop = FALSE ]]
    /\ UNCHANGED <<running_accounts, ss_signals, ss_main, cm_consumer, ss_op, ss_hist>>
    /\ UNCHANGED <<db_accounts, cm_queue, decodeVars, routeVars, reloginVars, pipeVars,
                   unitVars>>

\* websockets.connect raises: on_failure, then the finally block.
ConnectFails(t) ==
    /\ ss_thread[t].st = "connecting"
    /\ ThreadEnds(t, "connect_failed")
    /\ UNCHANGED <<running_accounts, ss_main, ss_op, ss_hist>>
    /\ UNCHANGED <<db_accounts, cm_queue, decodeVars, routeVars, reloginVars, pipeVars,
                   unitVars>>

\* asyncio.wait returns in init: the stop event is set, or the message loop
\* has ended (the peer closed the socket, a transport error, or the socket
\* was closed by stop_account). Then the finally block.
SessionEnds(t) ==
    /\ ss_thread[t].st = "open"
    /\ \E reason \in {"stop_event", "message_loop"} :
          /\ reason = "stop_event" => ss_thread[t].stop_event
          /\ ThreadEnds(t, reason)
    /\ UNCHANGED <<running_accounts, ss_main, ss_op, ss_hist>>
    /\ UNCHANGED <<db_accounts, cm_queue, decodeVars, routeVars, reloginVars, pipeVars,
                   unitVars>>

\* PDDChannel.stop_account on the channel of thread t: an open socket is
\* closed, then _cleanup_resources stops the consumer and clears self.ws.
StopAccount(t) ==
    /\ ss_thread[t].st \in {"connecting", "open"}
    /\ LET th == [ ss_thread[t] EXCEPT !.ws = "none" ]
           c == stop_consumer(cm_consumer) IN
       /\ ss_thread' = [ss_thread EXCEPT ![t] = [ th EXCEPT !.after_stop = TRUE ]]
       /\ cm_consumer' = c
       /\ ss_op' = [ name |-> "stop_account", acct |-> ss_thread[t].acct,
                     result |-> "done",
                     after_same |-> ss_thread[t].after_stop,
                     changed |-> \/ th # ss_thread[t]
                                 \/ ConsumerRegistry(c) # ConsumerRegistry(cm_consumer) ]
    /\ UNCHANGED <<running_accounts, ss_signals, ss_main, ss_hist>>
    /\ UNCHANGED <<db_accounts, cm_queue, decodeVars, routeVars, reloginVars, pipeVars,
                   unitVars>>

\* MessageConsumerManager.stop_consumer called on its own
\* (Message.stop_consumer).
StopConsumer ==
    /\ LET c == stop_consumer(cm_consumer) IN
       /\ cm_consumer' = c
       /\ ss_op' = [ name |-> "stop_consumer", acct |-> "acc1",
                     result |-> "done",
                     after_same |-> cm_consumer.after_stop,
                     changed |-> ConsumerRegistry(c) # ConsumerRegistry(cm_consumer) ]
    /\ UNCHANGED <<running_accounts, ss_thread, ss_signals, ss_main, ss_hist>>
    /\ UNCHANGED <<db_accounts, cm_queue, decodeVars, routeVars, reloginVars, pipeVars,
                   unitVars>>

-----------------------------------------------------------------------------
(* Message/message_consumer.py: MessageConsumer and UserSequentialProcessor *)
(* on the event loop that owns the consumer, with asyncio as of CPython     *)
(* 3.12: a task runs until it awaits something that is not ready;           *)
(* MessageQueue.get, asyncio.Queue.get/put, Semaphore.acquire and wait_for  *)
(* do not suspend when they can proceed; tasks made ready run in the order  *)
(* in which they were made ready. What the loop does not decide is when a   *)
(* frame is put into the account queue, when a timer expires and when the   *)
(* executor finishes an AI call.                                            *)

PipeMaxMsgs == 4        \* queued messages put in one run of the model
Msgs == 1..PipeMaxMsgs
Workers == 1..PipeMaxMsgs   \* every dispatch creates at most one worker
Procs == 1..PipeMaxMsgs     \* ... and at most one processor

max_concurrent == 1     \* MessageConsumer(max_concurrent): 10 in the code, scaled

\* made: the object exists. getters: asyncio.Queue._getters, the workers
\* suspended in message_queue.get() whose future is still pending.
NoProc == [ user |-> "none", made |-> FALSE, inbox |-> << >>, is_processing |-> FALSE,
            processor_task |-> 0, getters |-> << >> ]
NoWorker == [ proc |-> 0, pc |-> "none", msg |-> 0 ]

PipeInit ==
    /\ pp_queue = << >>
    /\ pp_user = [m \in Msgs |-> "none"]
    /\ pp_ready = << >>
    /\ pp_consumer = "waiting"
    /\ pp_reaper = "sleeping"
    /\ pp_user_processors = [u \in FromUids |-> 0]
    /\ pp_proc = [p \in Procs |-> NoProc]
    /\ pp_worker = [w \in Workers |-> NoWorker]
    /\ pp_started = << >>

NextMsg == CHOOSE m \in Msgs : pp_user[m] = "none" /\ \A n \in Msgs : n < m => pp_user[n] # "none"
NextProc == CHOOSE p \in Procs : ~pp_proc[p].made /\ \A q \in Procs : q < p => pp_proc[q].made
NextWorker ==
    CHOOSE w \in Workers : pp_worker[w].pc = "none"
                           /\ \A v \in Workers : v < w => pp_worker[v].pc # "none"

Running(kind) == pp_ready # << >> /\ Head(pp_ready)[1] = kind

\* A handler-chain invocation (_process_single_message) is in progress in
\* worker w: it awaits the executor, or is about to be resumed.
InHandler(w) == pp_worker[w].pc \in {"handling", "resumable"}

\* MessageQueue.put by the reader of a session: the message is appended and
\* notify_all wakes the consumer if it waits in get.
Put(u) ==
    /\ \E m \in Msgs : pp_user[m] = "none"
    /\ pp_user' = [pp_user EXCEPT ![NextMsg] = u]
    /\ pp_queue' = deque_append(pp_queue, NextMsg)
    /\ IF pp_consumer = "waiting"
       THEN /\ pp_consumer' = "ready"
            /\ pp_ready' = Append(pp_ready, <<"consumer", 0>>)
       ELSE UNCHANGED <<pp_consumer, pp_ready>>
    /\ UNCHANGED <<pp_reaper, pp_user_processors, pp_proc, pp_worker, pp_started>>
    /\ UNCHANGED <<decodeVars, routeVars, reloginVars, sessionVars, unitVars>>

\* MessageConsumer.start, the loop: every message that get() returns without
\* waiting becomes a _process_message task; on an empty queue get() waits.
RunConsumer ==
    /\ Running("consumer")
    /\ pp_ready' = Tail(pp_ready) \o [i \in 1..Len(pp_queue) |-> <<"dispatch", pp_queue[i]>>]
    /\ pp_queue' = << >>
    /\ pp_consumer' = "waiting"
    /\ UNCHANGED <<pp_user, pp_reaper, pp_user_processors, pp_proc, pp_worker, pp_started>>
    /\ UNCHANGED <<decodeVars, routeVars, reloginVars, sessionVars, unitVars>>

\* A registry that is not keyed by the user: the first processor ever made
\* serves everybody.
get_or_create_user_processor_Shared(u) ==
    IF \E q \in Procs : pp_proc[q].made /\ q \in { pp_user_processors[v] : v \in FromUids }
    THEN CHOOSE q \in Procs : /\ pp_proc[q].made
                              /\ q \in { pp_user_processors[v] : v \in FromUids }
                              /\ \A r \in Procs :
                                    (pp_proc[r].made /\ r \in { pp_user_processors[v] : v \in FromUids })
                                        => q <= r
    ELSE NextProc

\* MessageConsumer._get_or_create_user_processor: the processor registered
\* for the user, or a new one.
get_or_create_user_processor(u) ==
    IF pp_user_processors[u] = 0 THEN NextProc ELSE pp_user_processors[u]

\* MessageConsumer._process_message -> _get_or_create_user_processor ->
\* UserSequentialProcessor.add_message, inside `async with self.semaphore`;
\* nothing in it suspends, so the semaphore is free again when the task ends.
\* asyncio.Queue.put wakes the first pending getter.
RunDispatch ==
    /\ Running("dispatch")
    /\ LET m == Head(pp_ready)[2]
           u == pp_user[m]
           p == get_or_create_user_processor(u)
           fresh == ~pp_proc[p].made
           P0 == IF fresh THEN [ NoProc EXCEPT !.user = u, !.made = TRUE ] ELSE pp_proc[p]
           wake == IF P0.getters # << >> THEN Head(P0.getters) ELSE 0
           spawn == ~P0.is_processing
           w == NextWorker
           P1 == [ P0 EXCEPT !.inbox = Append(@, m),
                             !.getters = IF wake # 0 THEN Tail(@) ELSE @,
                             !.processor_task = IF spawn THEN w ELSE @ ]
           workers1 == IF wake # 0 THEN [pp_worker EXCEPT ![wake].pc = "woken"]
                       ELSE pp_worker
       IN
       /\ pp_user_processors' = [pp_user_processors EXCEPT ![u] = p]
       /\ pp_proc' = [pp_proc EXCEPT ![p] = P1]
       /\ pp_worker' = IF spawn
                       THEN [workers1 EXCEPT ![w] = [ proc |-> p, pc |-> "created", msg |-> 0 ]]
                       ELSE workers1
       /\ pp_ready' = Tail(pp_ready)
                      \o (IF wake # 0 THEN << <<"worker", wake>> >> ELSE << >>)
                      \o (IF spawn THEN << <<"worker", w>> >> ELSE << >>)
    /\ UNCHANGED <<pp_queue, pp_user, pp_consumer, pp_reaper, pp_started>>
    /\ UNCHANGED <<decodeVars, routeVars, reloginVars, sessionVars, unitVars>>

\* The loop of _process_user_messages from message_queue.get() on, for a
\* worker that runs: the first k messages of the inbox are handled by
\* handlers that do not suspend (keyword, transfer and business-hours
\* handlers), then either the next message enters a handler that awaits
\* the executor, or the inbox is empty and the worker waits in get().
WorkerLoop(w, P, k) ==
    LET n == Len(P.inbox)
        p == pp_worker[w].proc IN
    IF k < n THEN
        /\ pp_started' = pp_started \o SubSeq(P.inbox, 1, k + 1)
        /\ pp_proc' = [pp_proc EXCEPT ![p] = [ P EXCEPT !.inbox = SubSeq(@, k + 2, n) ]]
        /\ pp_worker' = [pp_worker EXCEPT ![w] = [ @ EXCEPT !.pc = "handling",
                                                           !.msg = P.inbox[k + 1] ]]
    ELSE
        /\ pp_started' = pp_started \o P.inbox
        /\ pp_proc' = [pp_proc EXCEPT ![p] = [ P EXCEPT !.inbox = << >>,
                                                        !.getters = Append(@, w) ]]
        /\ pp_worker' = [pp_worker EXCEPT ![w] = [ @ EXCEPT !.pc = "waiting", !.msg = 0 ]]

\* UserSequentialProcessor._process_user_messages, one run of the task: its
\* first run sets is_processing; a run after the 30 s timeout leaves the
\* loop and clears is_processing in the finally block (a getter that was
\* woken before it was cancelled passes the wake-up on); any other run
\* returns from the handler or from get() and goes on with the loop. An
\* exception that leaves _process_single_message ("raised") would end the
\* loop through `except Exception` and the finally block.
RunWorker ==
    /\ Running("worker")
    /\ LET w == Head(pp_ready)[2]
           W == pp_worker[w]
           P == pp_proc[W.proc] IN
       IF W.pc \in {"timedout", "timedout_woken", "raised"} THEN
           LET wake == IF W.pc = "timedout_woken" /\ P.inbox # << >> /\ P.getters # << >>
                       THEN Head(P.getters) ELSE 0 IN
           /\ pp_proc' = [pp_proc EXCEPT ![W.proc] =
                             [ P EXCEPT !.is_processing = FALSE,
                                        !.getters = IF wake # 0 THEN Tail(@) ELSE @ ]]
           /\ pp_worker' = [v \in Workers |->
                               IF v = w THEN [ W EXCEPT !.pc = "done" ]
                               ELSE IF v = wake THEN [ pp_worker[v] EXCEPT !.pc = "woken" ]
                               ELSE pp_worker[v]]
           /\ pp_ready' = Tail(pp_ready)
                          \o (IF wake # 0 THEN << <<"worker", wake>> >> ELSE << >>)
           /\ UNCHANGED pp_started
       ELSE
           /\ \E k \in 0..Len(P.inbox) :
                 WorkerLoop(w, [ P EXCEPT !.is_processing =
                                             IF W.pc = "created" THEN TRUE ELSE @ ], k)
           /\ pp_ready' = Tail(pp_ready)
    /\ UNCHANGED <<pp_queue, pp_user, pp_consumer, pp_reaper, pp_user_processors>>
    /\ UNCHANGED <<decodeVars, routeVars, reloginVars, sessionVars, unitVars>>

\* run_in_executor of AIAutoReplyHandler._get_ai_reply completes.
ExecDone(w) ==
    /\ pp_worker[w].pc = "handling"
    /\ pp_worker' = [pp_worker EXCEPT ![w].pc = "resumable"]
    /\ pp_ready' = Append(pp_ready, <<"worker", w>>)
    /\ UNCHANGED <<pp_queue, pp_user, pp_consumer, pp_reaper, pp_user_processors,
                   pp_proc, pp_started>>
    /\ UNCHANGED <<decodeVars, routeVars, reloginVars, sessionVars, unitVars>>

\* The 30 s of asyncio.wait_for(self.message_queue.get(), timeout=30.0) are
\* over: the worker task is cancelled at its await. A pending getter future
\* is cancelled with it; a worker already woken by a put stays scheduled and
\* gets the cancellation when it runs.
TimerFire(w) ==
    /\ pp_worker[w].pc \in {"waiting", "woken"}
    /\ LET p == pp_worker[w].proc IN
       IF pp_worker[w].pc = "waiting" THEN
           /\ pp_worker' = [pp_worker EXCEPT ![w].pc = "timedout"]
           /\ pp_proc' = [pp_proc EXCEPT ![p].getters = SelectSeq(@, LAMBDA v : v # w)]
           /\ pp_ready' = Append(pp_ready, <<"worker", w>>)
       ELSE
           /\ pp_worker' = [pp_worker EXCEPT ![w].pc = "timedout_woken"]
           /\ UNCHANGED <<pp_proc, pp_ready>>
    /\ UNCHANGED <<pp_queue, pp_user, pp_consumer, pp_reaper, pp_user_processors,
                   pp_started>>
    /\ UNCHANGED <<decodeVars, routeVars, reloginVars, sessionVars, unitVars>>

\* asyncio.sleep(60) of _cleanup_inactive_processors is over.
ReaperFire ==
    /\ pp_reaper = "sleeping"
    /\ pp_reaper' = "ready"
    /\ pp_ready' = Append(pp_ready, <<"reaper", 0>>)
    /\ UNCHANGED <<pp_queue, pp_user, pp_consumer, pp_user_processors, pp_proc,
                   pp_worker, pp_started>>
    /\ UNCHANGED <<decodeVars, routeVars, reloginVars, sessionVars, unitVars>>

\* _cleanup_inactive_processors, one round: every processor whose
\* is_processing is False is popped from user_processors and stopped;
\* UserSequentialProcessor.stop cancels processor_task, the task created
\* last, if it is not done.
RunReaper ==
    /\ Running("reaper")
    /\ LET inactive == { u \in FromUids : /\ pp_user_processors[u] # 0
                                          /\ ~pp_proc[pp_user_processors[u]].is_processing }
           popped == { pp_user_processors[u] : u \in inactive }
           cancelled == { w \in Workers :
                            /\ pp_worker[w].pc \notin {"none", "done"}
                            /\ \E p \in popped : pp_proc[p].processor_task = w }
       IN
       /\ pp_user_processors' = [u \in FromUids |->
                                    IF u \in inactive THEN 0 ELSE pp_user_processors[u]]
       /\ pp_worker' = [w \in Workers |->
                           IF w \in cancelled THEN [ pp_worker[w] EXCEPT !.pc = "done" ]
                           ELSE pp_worker[w]]
       /\ pp_proc' = [p \in Procs |->
                         [ pp_proc[p] EXCEPT
                             !.getters = SelectSeq(@, LAMBDA v : v \notin cancelled),
                             !.is_processing =
                                 IF p \in popped
                                    \/ \E w \in cancelled : pp_worker[w].proc = p
                                 THEN FALSE ELSE @ ]]
       /\ pp_ready' = SelectSeq(Tail(pp_ready),
                                LAMBDA t : ~(t[1] = "worker" /\ t[2] \in cancelled))
    /\ pp_reaper' = "sleeping"
    /\ UNCHANGED <<pp_queue, pp_user, pp_consumer, pp_started>>
    /\ UNCHANGED <<decodeVars, routeVars, reloginVars, sessionVars, unitVars>>

\* How a handle call can end: it returns True, it returns False, or it
\* raises an Exception.
HandleOutcomes == { "True", "False", "raise" }

\* _process_single_message with a handler call that lets its exception
\* through to the worker loop.
process_single_message_Propagate(outcome) ==
    IF outcome = "raise" THEN "raised" ELSE "returned"

\* _process_single_message: the whole body is inside try/except Exception,
\* so it returns whatever the handler did.
process_single_message(outcome) == "returned"

WorkInit == wk_outcome = [m \in Msgs |-> "none"]

\* run_in_executor of AIAutoReplyHandler._get_ai_reply completes, with what
\* makes the handle call end as `outcome` when the worker is resumed.
HandleEnds(w) ==
    /\ pp_worker[w].pc = "handling"
    /\ \E outcome \in HandleOutcomes :
          /\ pp_worker' = [pp_worker EXCEPT ![w].pc =
                              IF process_single_message(outcome) = "returned"
                              THEN "resumable" ELSE "raised"]
          /\ wk_outcome' = [wk_outcome EXCEPT ![pp_worker[w].msg] = outcome]
    /\ pp_ready' = Append(pp_ready, <<"worker", w>>)
    /\ UNCHANGED <<pp_queue, pp_user, pp_consumer, pp_reaper, pp_user_processors,
                   pp_proc, pp_started>>
    /\ UNCHANGED <<decodeVars, routeVars, reloginVars, sessionVars, queueVars,
                   chainVars, presenceVars, replyVars, laterVars>>

\* MessageConsumerManager.stop_consumer, called by _cleanup_resources when a
\* session ends: is_running = False and the consumer task is cancelled. The
\* finally block of MessageConsumer.start cancels the cleanup task and runs
\* _stop_all_user_processors: stop() of every dispatcher in user_processors
\* cancels its processor_task, which gets CancelledError at its await (in
\* get(), or in the handler at run_in_executor) or, when its wake-up is
\* already scheduled, instead of the result it was woken with; then
\* user_processors is cleared. _process_message tasks are not cancelled,
\* but one that is ready when the teardown begins runs before the finally
\* block reaches _stop_all_user_processors (the consumer task has to be
\* resumed twice first), so the step is taken when none is pending.
StopConsumerTask ==
    /\ pp_consumer # "stopped"
    /\ \A i \in 1..Len(pp_ready) : pp_ready[i][1] # "dispatch"
    /\ LET live == { pp_user_processors[u] : u \in FromUids } \ {0}
           cancelled == { w \in Workers :
                            /\ pp_worker[w].pc \notin {"none", "done"}
                            /\ \E p \in live : pp_proc[p].processor_task = w }
       IN
       /\ pp_worker' = [w \in Workers |->
                           IF w \in cancelled THEN [ pp_worker[w] EXCEPT !.pc = "done" ]
                           ELSE pp_worker[w]]
       /\ pp_proc' = [p \in Procs |->
                         [ pp_proc[p] EXCEPT
                             !.getters = SelectSeq(@, LAMBDA v : v \notin cancelled),
                             !.is_processing =
                                 IF p \in live \/ \E w \in cancelled : pp_worker[w].proc = p
                                 THEN FALSE ELSE @ ]]
       /\ pp_ready' = SelectSeq(pp_ready,
                                LAMBDA t : /\ t[1] \notin {"consumer", "reaper"}
                                           /\ ~(t[1] = "worker" /\ t[2] \in cancelled))
       /\ wk_outcome' = [m \in Msgs |->
                            IF \E w \in cancelled : pp_worker[w].msg = m /\ InHandler(w)
                            THEN IF \E w \in cancelled : pp_worker[w].msg = m
                                                         /\ pp_worker[w].pc = "handling"
                                 THEN "cancelled in the agent call"
                                 ELSE "cancelled before the send"
                            ELSE wk_outcome[m]]
    /\ pp_user_processors' = [u \in FromUids |-> 0]
    /\ pp_consumer' = "stopped"
    /\ pp_reaper' = "stopped"
    /\ UNCHANGED <<pp_queue, pp_user, pp_started>>
    /\ UNCHANGED <<decodeVars, routeVars, reloginVars, sessionVars, queueVars,
                   chainVars, presenceVars, replyVars, laterVars>>

-----------------------------------------------------------------------------
(* Message/message_queue.py: one MessageQueue(QueueMax) used by producers   *)
(* and by getters that are tasks of one event loop. put, close and clear    *)
(* never wait: the lock is free whenever a task runs, because a getter      *)
(* gives it up while it waits on the condition.                             *)

QueueMax == 2       \* MessageQueue(max_size=QueueMax)
MqMaxPuts == 4      \* put calls in one run of the model
MqGetters == 2      \* tasks that call get(timeout)
Getters == 1..MqGetters
Items == 1..MqMaxPuts

\* Condition.notify_all: every getter waiting on the condition is scheduled.
\* A variant that wakes nobody.
notify_all_Nobody(g) == g

notify_all(g) == [x \in Getters |-> IF g[x] = "blocked" THEN "woken" ELSE g[x]]

QueueInit ==
    /\ mq_queue = << >>
    /\ mq_closed = FALSE
    /\ mq_getter = [g \in Getters |-> "idle"]
    /\ mq_accepted = << >>
    /\ mq_got = << >>
    /\ mq_cleared = FALSE
    /\ mq_last = [ op |-> "none", result |-> 0, closed |-> FALSE, head |-> 0,
                   changed |-> FALSE, waited |-> FALSE ]

MqHead == IF mq_queue = << >> THEN 0 ELSE Head(mq_queue)

\* What get returns once it need not wait (lines 94-100): None (0) for an
\* empty queue, else popleft.
MqReturn(g, waited) ==
    /\ mq_getter' = [mq_getter EXCEPT ![g] = "idle"]
    /\ mq_last' = [ op |-> "get", result |-> MqHead, closed |-> mq_closed,
                    head |-> MqHead, changed |-> mq_queue # << >>, waited |-> waited ]
    /\ IF mq_queue = << >> THEN UNCHANGED <<mq_queue, mq_got>>
       ELSE /\ mq_queue' = Tail(mq_queue)
            /\ mq_got' = Append(mq_got, Head(mq_queue))

\* MessageQueue.put: RuntimeError on a closed queue; otherwise the wrapper
\* is appended to the deque, the waiters are notified and the id returned.
MqPut ==
    /\ Len(mq_accepted) < MqMaxPuts
    /\ LET item == Len(mq_accepted) + 1 IN
       IF mq_closed THEN
           /\ mq_last' = [ op |-> "put", result |-> None, closed |-> TRUE, head |-> MqHead,
                           changed |-> FALSE, waited |-> FALSE ]
           /\ UNCHANGED <<mq_queue, mq_getter, mq_accepted>>
       ELSE
           /\ mq_queue' = deque_maxlen_append(mq_queue, item, QueueMax)
           /\ mq_accepted' = Append(mq_accepted, item)
           /\ mq_getter' = notify_all(mq_getter)
           /\ mq_last' = [ op |-> "put", result |-> item, closed |-> FALSE, head |-> MqHead,
                           changed |-> TRUE, waited |-> FALSE ]
    /\ UNCHANGED <<mq_closed, mq_got, mq_cleared>>
    /\ UNCHANGED <<decodeVars, routeVars, reloginVars, sessionVars, pipeVars, chainVars,
                   presenceVars, replyVars, workVars, laterVars>>

\* MessageQueue.get up to its first wait: None at once on a closed, empty
\* queue; an item at once if there is one; otherwise the task waits on the
\* condition, with the timeout running.
MqGet(g) ==
    /\ mq_getter[g] = "idle"
    /\ IF mq_queue # << >> \/ mq_closed
       THEN MqReturn(g, FALSE)
       ELSE /\ mq_getter' = [mq_getter EXCEPT ![g] = "blocked"]
            /\ UNCHANGED <<mq_queue, mq_got, mq_last>>
    /\ UNCHANGED <<mq_closed, mq_accepted, mq_cleared>>
    /\ UNCHANGED <<decodeVars, routeVars, reloginVars, sessionVars, pipeVars, chainVars,
                   presenceVars, replyVars, workVars, laterVars>>

\* A notified getter runs again: Condition.wait_for evaluates the predicate
\* `self._queue or self._closed` and waits again if it is false.
MqGetResume(g) ==
    /\ mq_getter[g] = "woken"
    /\ IF mq_queue # << >> \/ mq_closed
       THEN MqReturn(g, TRUE)
       ELSE /\ mq_getter' = [mq_getter EXCEPT ![g] = "blocked"]
            /\ UNCHANGED <<mq_queue, mq_got, mq_last>>
    /\ UNCHANGED <<mq_closed, mq_accepted, mq_cleared>>
    /\ UNCHANGED <<decodeVars, routeVars, reloginVars, sessionVars, pipeVars, chainVars,
                   presenceVars, replyVars, workVars, laterVars>>

\* The timeout of get expires while the getter waits or before a notified
\* getter has run: asyncio.TimeoutError, get returns None and takes nothing.
MqGetTimeout(g) ==
    /\ mq_getter[g] \in {"blocked", "woken"}
    /\ mq_getter' = [mq_getter EXCEPT ![g] = "idle"]
    /\ mq_last' = [ op |-> "get", result |-> 0, closed |-> mq_closed, head |-> MqHead,
                    changed |-> FALSE, waited |-> TRUE ]
    /\ UNCHANGED <<mq_queue, mq_closed, mq_accepted, mq_got, mq_cleared>>
    /\ UNCHANGED <<decodeVars, routeVars, reloginVars, sessionVars, pipeVars, chainVars,
                   presenceVars, replyVars, workVars, laterVars>>

\* MessageQueue.close
MqClose ==
    /\ mq_closed' = TRUE
    /\ mq_getter' = notify_all(mq_getter)
    /\ mq_last' = [ op |-> "close", result |-> 0, closed |-> mq_closed, head |-> MqHead,
                    changed |-> FALSE, waited |-> FALSE ]
    /\ UNCHANGED <<mq_queue, mq_accepted, mq_got, mq_cleared>>
    /\ UNCHANGED <<decodeVars, routeVars, reloginVars, sessionVars, pipeVars, chainVars,
                   presenceVars, replyVars, workVars, laterVars>>

\* MessageQueue.clear
MqClear ==
    /\ mq_queue' = << >>
    /\ mq_cleared' = TRUE
    /\ mq_last' = [ op |-> "clear", result |-> Len(mq_queue), closed |-> mq_closed,
                    head |-> MqHead, changed |-> mq_queue # << >>, waited |-> FALSE ]
    /\ UNCHANGED <<mq_closed, mq_getter, mq_accepted, mq_got>>
    /\ UNCHANGED <<decodeVars, routeVars, reloginVars, sessionVars, pipeVars, chainVars,
                   presenceVars, replyVars, workVars, laterVars>>

-----------------------------------------------------------------------------
(* Message/message_handler.py: handler_chain and the can_handle of its      *)
(* handlers; Message/message_consumer.py: _process_single_message.          *)

\* handler_chain(): the handlers in chain order.
handler_chain ==
    << "BusinessHoursHandler", "CustomerServiceTransferHandler", "AIAutoReplyHandler" >>

\* AIAutoReplyHandler.auto_reply_types
auto_reply_types ==
    { "TEXT", "GOODS_INQUIRY", "GOODS_SPEC", "ORDER_INFO", "IMAGE", "VIDEO", "EMOTION" }

\* An event as the handlers see it: its type and channel, whether its text
\* holds a transfer keyword, what the clock and the businessHours setting
\* give (a setting that strptime cannot parse makes can_handle raise), and
\* how the handle that is called ends.
ChainEvents ==
    [ type : ContextType, channel : {"pinduoduo", "other"}, keyword : BOOLEAN,
      hours : {"open", "closed", "malformed"}, outcome : {"true", "false", "raises"} ]

\* can_handle of each handler: "true", "false" or "raises".
can_handle(h, ev) ==
    IF h = "BusinessHoursHandler" THEN
        (IF ev.hours = "malformed" THEN "raises"
         ELSE IF ev.hours = "closed" THEN "true" ELSE "false")
    ELSE IF h = "CustomerServiceTransferHandler" THEN
        (IF ev.type = "TEXT" /\ ev.keyword THEN "true" ELSE "false")
    ELSE
        (IF ev.type \in auto_reply_types /\ ev.channel = "pinduoduo" THEN "true" ELSE "false")

\* The loop with the `break` moved under `if success`: a handler that
\* fails hands the event on to the next one.
RECURSIVE run_handlers_BreakOnSuccess(_, _)
run_handlers_BreakOnSuccess(i, ev) ==
    IF i > Len(handler_chain) THEN << >>
    ELSE IF can_handle(handler_chain[i], ev) = "raises" THEN << >>
    ELSE IF can_handle(handler_chain[i], ev) = "true" THEN
        (IF ev.outcome = "true" THEN << handler_chain[i] >>
         ELSE IF ev.outcome = "raises" THEN << handler_chain[i] >>
         ELSE << handler_chain[i] >> \o run_handlers_BreakOnSuccess(i + 1, ev))
    ELSE run_handlers_BreakOnSuccess(i + 1, ev)

\* The for loop of _process_single_message from handler i on: the handlers
\* whose handle is called. An exception of can_handle or handle leaves the
\* loop through the except clause of the method.
RECURSIVE run_handlers(_, _)
run_handlers(i, ev) ==
    IF i > Len(handler_chain) THEN << >>
    ELSE IF can_handle(handler_chain[i], ev) = "raises" THEN << >>
    ELSE IF can_handle(handler_chain[i], ev) = "true" THEN << handler_chain[i] >>
    ELSE run_handlers(i + 1, ev)

\* The state after a first text message was processed by the AI handler.
ChainInit ==
    /\ ch_event = [ type |-> "TEXT", channel |-> "pinduoduo", keyword |-> FALSE,
                    hours |-> "open", outcome |-> "true" ]
    /\ ch_invoked = run_handlers(1, ch_event)
    /\ ch_handled = TRUE

\* UserSequentialProcessor._process_single_message
ProcessSingleMessage ==
    /\ \E ev \in ChainEvents :
        /\ ch_event' = ev
        /\ ch_invoked' = run_handlers(1, ev)
        /\ ch_handled' = (run_handlers(1, ev) # << >> /\ ev.outcome = "true")
    /\ UNCHANGED <<decodeVars, routeVars, reloginVars, sessionVars, pipeVars, queueVars,
                   presenceVars, replyVars, workVars, laterVars>>

-----------------------------------------------------------------------------
(* ui/auto_reply_ui.py: SetStatusThread, started by the online and offline  *)
(* buttons of an account card; Channel/pinduoduo/utils/API/Set_up_online.py *)
(* and database/db_manager.py: the platform call and the store write it     *)
(* makes. Each thread runs once; a new one can be started while an earlier  *)
(* one is still running.                                                    *)

PrThreads == 2          \* SetStatusThread objects started
StatusThreads == 1..PrThreads

\* Rows of the accounts table, and the user ids an account_data dict of the
\* UI can carry ("gone": the row was deleted after the card was drawn).
StoredUsers == {"a1", "a2"}
DataUsers == {"a1", "gone"}

\* target_status of the two buttons: 1 online, 3 offline.
TargetStatuses == {1, 3}

\* What BaseRequest.post hands to set_csstatus: None, a body with
\* success == True, any other body.
ApiResults == {"none", "success_true", "success_false"}

\* AccountMonitor.set_csstatus: `result and result.get("success") == True`.
set_csstatus_Always(result) == TRUE
set_csstatus(result) == result = "success_true"

\* DatabaseManager.update_account_status: the table afterwards and the
\* returned bool. A missing row returns False; an SQLAlchemyError is rolled
\* back and returns False; otherwise only the row's status is assigned.
update_account_status(db, user_id, status, sql_ok) ==
    IF user_id \notin DOMAIN db THEN [ db |-> db, ok |-> FALSE ]
    ELSE IF ~sql_ok THEN [ db |-> db, ok |-> FALSE ]
    ELSE [ db |-> [ db EXCEPT ![user_id].status = status ], ok |-> TRUE ]

NoStatusThread ==
    [ pc |-> "idle", user_id |-> "a1", cookies |-> FALSE, complete |-> FALSE,
      target_status |-> 1 ]

PresenceInit ==
    /\ pr_db = [ u \in StoredUsers |-> [ status |-> 0, cookies |-> "ck" ] ]
    /\ pr_platform = 0
    /\ pr_thread = [ t \in StatusThreads |-> NoStatusThread ]
    /\ pr_signals = [ t \in StatusThreads |-> "none" ]
    /\ pr_last = [ thread |-> 0, step |-> "none", api |-> "none", store |-> "none",
                   before |-> pr_db, after |-> pr_db ]

\* status_set_success / status_set_failed emitted and run() returns.
PrEmit(t, signal) ==
    /\ pr_signals' = [ pr_signals EXCEPT ![t] = signal ]
    /\ pr_thread' = [ pr_thread EXCEPT ![t].pc = "done" ]

\* SetStatusThread(account_data, target_status) and start(): account_data is
\* the dict of the card, with or without cookies, with or without the keys
\* channel_name, shop_id and user_id.
SetStatusStart(t) ==
    /\ pr_thread[t].pc = "idle"
    /\ \E u \in DataUsers, ck \in BOOLEAN, cp \in BOOLEAN, st \in TargetStatuses :
          pr_thread' = [ pr_thread EXCEPT ![t] =
              [ pc |-> "platform", user_id |-> u, cookies |-> ck, complete |-> cp,
                target_status |-> st ] ]
    /\ UNCHANGED <<pr_db, pr_platform, pr_signals, pr_last>>
    /\ UNCHANGED <<decodeVars, routeVars, reloginVars, sessionVars, pipeVars, queueVars,
                   chainVars, replyVars, workVars, laterVars>>

\* run(), first half: the cookies check and set_csstatus.
SetStatusPlatform(t) ==
    /\ pr_thread[t].pc = "platform"
    /\ IF ~pr_thread[t].cookies THEN
           /\ PrEmit(t, "failed: no cookies")
           /\ pr_last' = [ thread |-> t, step |-> "platform", api |-> "not called",
                           store |-> "not called", before |-> pr_db, after |-> pr_db ]
           /\ UNCHANGED pr_platform
       ELSE \E result \in ApiResults :
           /\ pr_last' = [ thread |-> t, step |-> "platform", api |-> result,
                           store |-> "not called", before |-> pr_db, after |-> pr_db ]
           /\ pr_platform' = IF result = "success_true"
                             THEN pr_thread[t].target_status ELSE pr_platform
           /\ IF set_csstatus(result)
              THEN /\ pr_thread' = [ pr_thread EXCEPT ![t].pc = "store" ]
                   /\ UNCHANGED pr_signals
              ELSE PrEmit(t, "failed: platform")
    /\ UNCHANGED pr_db
    /\ UNCHANGED <<decodeVars, routeVars, reloginVars, sessionVars, pipeVars, queueVars,
                   chainVars, replyVars, workVars, laterVars>>

\* run(), second half: update_account_status with the keys of account_data
\* (KeyError when one is missing) and the signal.
SetStatusStore(t) ==
    /\ pr_thread[t].pc = "store"
    /\ IF ~pr_thread[t].complete THEN
           /\ PrEmit(t, "failed: incomplete")
           /\ pr_last' = [ thread |-> t, step |-> "store", api |-> "success_true",
                           store |-> "not called", before |-> pr_db, after |-> pr_db ]
           /\ UNCHANGED pr_db
       ELSE \E sql_ok \in BOOLEAN :
           LET r == update_account_status(pr_db, pr_thread[t].user_id,
                                          pr_thread[t].target_status, sql_ok)
           IN  /\ pr_db' = r.db
               /\ PrEmit(t, IF r.ok THEN "success" ELSE "failed: database")
               /\ pr_last' = [ thread |-> t, step |-> "store", api |-> "success_true",
                               store |-> IF r.ok THEN "written" ELSE "failed",
                               before |-> pr_db, after |-> r.db ]
    /\ UNCHANGED pr_platform
    /\ UNCHANGED <<decodeVars, routeVars, reloginVars, sessionVars, pipeVars, queueVars,
                   chainVars, replyVars, workVars, laterVars>>

-----------------------------------------------------------------------------
(* Message/message_handler.py: AIAutoReplyHandler, and Agent/CozeAgent: the *)
(* bot, its conversation manager and its user_sessions table.  bot.reply   *)
(* runs in the default executor, so the steps of two invocations that are  *)
(* in flight together interleave at every database and network call.       *)

RpInvocations == 2
Invocations == 1..RpInvocations

\* The texts bot.reply returns besides the agent's answer.
ConversationFailed == "conversation creation failed"  \* "会话创建失败"
RequestTimedOut    == "request timed out"             \* "请求处理超时"
NoReplyObtained    == "no reply obtained"             \* "未能获取到回复"
ProcessingFailed   == "message processing failed"     \* "消息处理失败"
AnswerText         == "answer"                        \* messages.content
Sentinels == { ConversationFailed, RequestTimedOut, NoReplyObtained, ProcessingFailed }

\* What a user_sessions statement can do: run, raise sqlite3.Error (caught
\* in UserSessionManager), or raise anything else (caught in CozeBot.reply).
DbOutcomes == { "ok", "sqlite_error", "raise" }

\* What chat.create_and_poll gives back.
AgentOutcomes == { "answer", "no_text", "exception" }

NoInvocation ==
    [ pc |-> "idle", key |-> "U1", conv |-> 0, agent |-> "none", reply |-> "none",
      sends |-> << >>, result |-> "none" ]

ReplyInit ==
    /\ rp_bot = "unset"
    /\ rp_sessions = [ k \in FromUids |-> 0 ]
    /\ rp_nconv = 0
    /\ rp_created = [ k \in FromUids |-> {} ]
    /\ rp_inv = [ i \in Invocations |-> NoInvocation ]

\* UserSessionManager.get_session: the stored id, None when there is no row
\* and None when the SELECT raises sqlite3.Error.
get_session(sessions, user_id, db) ==
    IF db = "ok" THEN sessions[user_id] ELSE 0

\* UserSessionManager.create_session: INSERT OR REPLACE; a sqlite3.Error is
\* logged and False is returned.
create_session(sessions, user_id, conversation_id, db) ==
    IF db = "ok" THEN [ sessions EXCEPT ![user_id] = conversation_id ] ELSE sessions

\* CozeBot._create_message_and_get_reply: the first text answer, a sentinel
\* when there is none, another when the calls raise.
create_message_and_get_reply(agent) ==
    CASE agent = "answer"    -> AnswerText
      [] agent = "no_text"   -> NoReplyObtained
      [] agent = "exception" -> RequestTimedOut

\* AIAutoReplyHandler.__init__: the bot that is passed in, else
\* create_bot(); when that raises, bot stays None.
RpMakeHandler ==
    /\ rp_bot = "unset"
    /\ \E created \in BOOLEAN : rp_bot' = IF created THEN "coze" ELSE "none"
    /\ UNCHANGED <<rp_sessions, rp_nconv, rp_created, rp_inv>>
    /\ UNCHANGED <<decodeVars, routeVars, reloginVars, sessionVars, pipeVars, queueVars,
                   chainVars, presenceVars, workVars, laterVars>>

\* handle() up to the call of bot.reply in the executor. With bot None the
\* attribute lookup self.bot.reply raises; handle logs and returns False.
RpHandle(i, k) ==
    /\ rp_bot # "unset"
    /\ rp_inv[i].pc = "idle"
    /\ rp_inv' = [ rp_inv EXCEPT ![i] =
                     IF rp_bot = "none"
                     THEN [ @ EXCEPT !.pc = "done", !.key = k, !.result = "False" ]
                     ELSE [ @ EXCEPT !.pc = "get_session", !.key = k ] ]
    /\ UNCHANGED <<rp_bot, rp_sessions, rp_nconv, rp_created>>
    /\ UNCHANGED <<decodeVars, routeVars, reloginVars, sessionVars, pipeVars, queueVars,
                   chainVars, presenceVars, workVars, laterVars>>

\* CozeBot.reply: conversation_id = session_manager.get_session(user_id).
RpGetSession(i) ==
    /\ rp_inv[i].pc = "get_session"
    /\ \E db \in DbOutcomes :
          LET conversation_id == get_session(rp_sessions, rp_inv[i].key, db)
          IN  rp_inv' = [ rp_inv EXCEPT ![i] =
                  IF db = "raise"
                  THEN [ @ EXCEPT !.pc = "send", !.reply = ProcessingFailed ]
                  ELSE IF conversation_id # 0
                  THEN [ @ EXCEPT !.pc = "chat", !.conv = conversation_id ]
                  ELSE [ @ EXCEPT !.pc = "create" ] ]
    /\ UNCHANGED <<rp_bot, rp_sessions, rp_nconv, rp_created>>
    /\ UNCHANGED <<decodeVars, routeVars, reloginVars, sessionVars, pipeVars, queueVars,
                   chainVars, presenceVars, workVars, laterVars>>

\* ConversationManager.create_conversation, first half:
\* coze.conversations.create(); an exception makes it return None and
\* reply() return the sentinel.
RpCreateConversation(i) ==
    /\ rp_inv[i].pc = "create"
    /\ \E ok \in BOOLEAN :
          IF ok
          THEN /\ rp_nconv' = rp_nconv + 1
               /\ rp_created' = [ rp_created EXCEPT ![rp_inv[i].key] = @ \cup { rp_nconv + 1 } ]
               /\ rp_inv' = [ rp_inv EXCEPT ![i].pc = "create_session",
                                            ![i].conv = rp_nconv + 1 ]
          ELSE /\ rp_inv' = [ rp_inv EXCEPT ![i].pc = "send",
                                            ![i].reply = ConversationFailed ]
               /\ UNCHANGED <<rp_nconv, rp_created>>
    /\ UNCHANGED <<rp_bot, rp_sessions>>
    /\ UNCHANGED <<decodeVars, routeVars, reloginVars, sessionVars, pipeVars, queueVars,
                   chainVars, presenceVars, workVars, laterVars>>

\* ConversationManager.create_conversation, second half:
\* session_manager.create_session(user_id, conversation_id), whose result
\* is not looked at; the new id is returned either way. Any other exception
\* makes create_conversation return None.
RpCreateSession(i) ==
    /\ rp_inv[i].pc = "create_session"
    /\ \E db \in DbOutcomes :
          /\ rp_sessions' = create_session(rp_sessions, rp_inv[i].key, rp_inv[i].conv, db)
          /\ rp_inv' = [ rp_inv EXCEPT ![i] =
                  IF db = "raise"
                  THEN [ @ EXCEPT !.pc = "send", !.conv = 0, !.reply = ConversationFailed ]
                  ELSE [ @ EXCEPT !.pc = "chat" ] ]
    /\ UNCHANGED <<rp_bot, rp_nconv, rp_created>>
    /\ UNCHANGED <<decodeVars, routeVars, reloginVars, sessionVars, pipeVars, queueVars,
                   chainVars, presenceVars, workVars, laterVars>>

\* CozeBot._create_message_and_get_reply with the conversation id in hand.
RpChat(i) ==
    /\ rp_inv[i].pc = "chat"
    /\ \E agent \in AgentOutcomes :
          rp_inv' = [ rp_inv EXCEPT ![i].pc = "send", ![i].agent = agent,
                                    ![i].reply = create_message_and_get_reply(agent) ]
    /\ UNCHANGED <<rp_bot, rp_sessions, rp_nconv, rp_created>>
    /\ UNCHANGED <<decodeVars, routeVars, reloginVars, sessionVars, pipeVars, queueVars,
                   chainVars, presenceVars, workVars, laterVars>>

\* _send_reply: a Reply is not iterable, so _send_single_reply is called
\* once and calls sender.send_text(from_uid, reply.content) once; handle
\* returns True whatever send_text returned.
RpSendReply(i) ==
    /\ rp_inv[i].pc = "send"
    /\ rp_inv' = [ rp_inv EXCEPT ![i].pc = "done",
                                 ![i].sends = Append(@, rp_inv[i].reply),
                                 ![i].result = "True" ]
    /\ UNCHANGED <<rp_bot, rp_sessions, rp_nconv, rp_created>>
    /\ UNCHANGED <<decodeVars, routeVars, reloginVars, sessionVars, pipeVars, queueVars,
                   chainVars, presenceVars, workVars, laterVars>>

-----------------------------------------------------------------------------
(* Channel/pinduoduo/pdd_chnnel.py: the consumer stack of the sessions of  *)
(* several accounts. init names the queue of a session pdd_<shop_id>; the  *)
(* registries of queues, consumers and consumer tasks are process-wide and *)
(* keyed by that name.                                                     *)

ShMaxStarts == 2        \* start_account calls per account in one run of the model
Shops == { "S1", "S2" }
ShopAccounts == { "a1", "a2", "a3" }
shop_id(a) == IF a = "a3" THEN "S2" ELSE "S1"   \* a1 and a2 are seats of one shop

\* queue_name = f"pdd_{shop_id}"
queue_name(a) == <<"pdd", shop_id(a)>>
QueueNames == { <<"pdd", sh>> : sh \in Shops }

NoConsumer == [ exists |-> FALSE, is_running |-> FALSE, task |-> 0, after_stop |-> FALSE ]

ShopInit ==
    /\ sh_session = [a \in ShopAccounts |-> "none"]
    /\ sh_nstart = [a \in ShopAccounts |-> 0]
    /\ sh_consumers = [q \in QueueNames |-> NoConsumer]
    /\ sh_queues = [q \in QueueNames |-> "none"]
    /\ sh_last = [ acct |-> "a1", step |-> "none" ]

\* The task number under which the consumer task of account a's loop is
\* registered.
ShTask(a) == CASE a = "a1" -> 1 [] a = "a2" -> 2 [] a = "a3" -> 3

\* PDDChannel.init up to the open socket: _setup_message_consumer for the
\* queue of the shop, then the connection.
ShStart(a) ==
    /\ sh_session[a] \in {"none", "ended"}
    /\ sh_nstart[a] < ShMaxStarts
    /\ LET q == queue_name(a) IN
       /\ sh_consumers' = [sh_consumers EXCEPT
                              ![q] = setup_message_consumer(@, ShTask(a))]
       /\ sh_queues' = [sh_queues EXCEPT
                           ![q] = IF sh_consumers[q].exists THEN @
                                  ELSE get_or_create_queue(@)]
    /\ sh_session' = [sh_session EXCEPT ![a] = "running"]
    /\ sh_nstart' = [sh_nstart EXCEPT ![a] = @ + 1]
    /\ sh_last' = [ acct |-> a, step |-> "start" ]
    /\ UNCHANGED <<decodeVars, routeVars, reloginVars, sessionVars, pipeVars, queueVars,
                   chainVars, presenceVars, replyVars, workVars, transferVars, hoursVars>>

\* The session of account a ends (stop, transport close or failure): the
\* finally block of init runs _cleanup_resources(f"pdd_{shop_id}").
ShEnd(a) ==
    /\ sh_session[a] = "running"
    /\ sh_consumers' = [sh_consumers EXCEPT ![queue_name(a)] = stop_consumer(@)]
    /\ sh_session' = [sh_session EXCEPT ![a] = "ended"]
    /\ sh_last' = [ acct |-> a, step |-> "end" ]
    /\ UNCHANGED <<sh_nstart, sh_queues>>
    /\ UNCHANGED <<decodeVars, routeVars, reloginVars, sessionVars, pipeVars, queueVars,
                   chainVars, presenceVars, replyVars, workVars, transferVars, hoursVars>>

-----------------------------------------------------------------------------
(* Message/message_handler.py: CustomerServiceTransferHandler.handle, and   *)
(* Channel/pinduoduo/utils/API/send_message.py: getAssignCsList,            *)
(* move_conversation. One text event that holds a transfer keyword, during  *)
(* business hours, processed by _process_single_message.                    *)

TrMaxEvents == 2        \* keyword events processed in a run

\* Keys of csList. my_cs_uid = f"cs_{shop_id}_{user_id}" is the seat's own.
my_cs_uid == "cs_me"
CsUids == { "cs_me", "cs_a", "cs_b" }

\* What getAssignCsList returns: None (the request failed or success was
\* false), or the csList dict, here its keys in dict order.
CsLists ==
    { [ none |-> TRUE, keys |-> << >> ] } \cup
    { [ none |-> FALSE, keys |-> k ] :
        k \in { q \in UNION { [1..n -> CsUids] : n \in 0..3 } :
                  \A i, j \in DOMAIN q : i # j => q[i] # q[j] } }

\* What move_conversation returns: None, a body with success true, any
\* other body.
MoveResults == { "None", "success", "not_success" }

\* The text sent when no other seat is left ("抱歉，当前没有其他客服在线，请您稍后再试。").
NoAgentText == "no other agent online"

\* available_cs_uids = [uid for uid in cs_list.keys() if uid != my_cs_uid]
available_cs_uids(keys) == SelectSeq(keys, LAMBDA uid : uid # my_cs_uid)

\* `if cs_list and isinstance(cs_list, dict)`: None and the empty dict are
\* both false.
cs_list_truthy(cs) == ~cs.none /\ cs.keys # << >>

\* CustomerServiceTransferHandler.handle: the calls it makes on its
\* SendMessage, in order, and the bool it returns.
transfer_handle(cs, from_uid, mv) ==
    LET fetch == << <<"getAssignCsList", "", "">> >>
        available == available_cs_uids(cs.keys) IN
    IF cs_list_truthy(cs) THEN
        IF available # << >> THEN
            [ calls |-> Append(fetch, <<"move_conversation", from_uid, available[1]>>),
              ret |-> (mv = "success") ]
        ELSE
            [ calls |-> Append(fetch, <<"send_text", from_uid, NoAgentText>>),
              ret |-> FALSE ]
    ELSE [ calls |-> fetch, ret |-> FALSE ]

TransferInit ==
    /\ tr_cs_list = [ none |-> TRUE, keys |-> << >> ]
    /\ tr_from = "U1"
    /\ tr_calls = << >>
    /\ tr_ret = FALSE
    /\ tr_invoked = << >>
    /\ tr_n = 0

\* UserSequentialProcessor._process_single_message on a text event with a
\* transfer keyword, received during business hours.
TransferMessage ==
    \E cs \in CsLists, from_uid \in FromUids, mv \in MoveResults :
        LET h == transfer_handle(cs, from_uid, mv)
            ev == [ type |-> "TEXT", channel |-> "pinduoduo", keyword |-> TRUE,
                    hours |-> "open",
                    outcome |-> IF h.ret THEN "true" ELSE "false" ] IN
        /\ tr_n < TrMaxEvents
        /\ tr_n' = tr_n + 1
        /\ tr_cs_list' = cs
        /\ tr_from' = from_uid
        /\ tr_invoked' = run_handlers(1, ev)
        /\ tr_calls' = IF "CustomerServiceTransferHandler" \in
                            { run_handlers(1, ev)[i] : i \in DOMAIN run_handlers(1, ev) }
                       THEN h.calls ELSE << >>
        /\ tr_ret' = h.ret
        /\ UNCHANGED <<decodeVars, routeVars, reloginVars, sessionVars, pipeVars, queueVars,
                       chainVars, presenceVars, replyVars, workVars, shopVars, hoursVars>>

-----------------------------------------------------------------------------
(* Message/message_handler.py: BusinessHoursHandler. handler_chain builds   *)
(* the handler with the configured businessHours; every event asks          *)
(* can_handle, which reads the clock. The day is scaled down: a clock       *)
(* value is (hour, minute, second) and a configured bound is (hour,         *)
(* minute), as strptime('%H:%M') gives it, with second 0.                   *)

HoursPerDay == 3
MinutesPerHour == 2
SecondsPerMinute == 2
BhMaxEvents == 2        \* events processed in a run

\* The values of 'HH:MM' strings, and of datetime.now().time()
HHMM == (0..(HoursPerDay - 1)) \X (0..(MinutesPerHour - 1))
ClockTimes == (0..(HoursPerDay - 1)) \X (0..(MinutesPerHour - 1)) \X (0..(SecondsPerMinute - 1))

\* datetime.strptime(s, '%H:%M').time()
strptime_time(hm) == <<hm[1], hm[2], 0>>

\* datetime.time.__le__: the fields are compared in order.
time_le(a, b) ==
    \/ a[1] < b[1]
    \/ a[1] = b[1] /\ a[2] < b[2]
    \/ a[1] = b[1] /\ a[2] = b[2] /\ a[3] <= b[3]

\* `start_time <= now < end_time`: the end bound left out.
is_business_hours_HalfOpen(hours, now) ==
    /\ time_le(strptime_time(hours.start), now)
    /\ time_le(now, strptime_time(hours.end))
    /\ now # strptime_time(hours.end)

\* BusinessHoursHandler._is_business_hours: start_time <= now <= end_time
is_business_hours(hours, now) ==
    /\ time_le(strptime_time(hours.start), now)
    /\ time_le(now, strptime_time(hours.end))

\* The reply of BusinessHoursHandler.handle: a fixed sentence around the
\* configured bounds (and the clock, left out here).
NonBusinessText(hours) == <<"non_business_hours", hours.start, hours.end>>

HoursInit ==
    /\ bh_hours = [ start |-> <<0, 0>>, end |-> <<HoursPerDay - 1, 0>> ]
    /\ bh_now = <<0, 0, 0>>
    /\ bh_from = "U1"
    /\ bh_invoked = << >>
    /\ bh_sent = << >>
    /\ bh_n = 0

\* handler_chain(businessHours = ...): the handler is built with a pair of
\* bounds, before the first event.
ConfigureHours ==
    \E st \in HHMM, en \in HHMM :
        /\ bh_n = 0
        /\ bh_hours' = [ start |-> st, end |-> en ]
        /\ UNCHANGED <<bh_now, bh_from, bh_invoked, bh_sent, bh_n>>
        /\ UNCHANGED <<decodeVars, routeVars, reloginVars, sessionVars, pipeVars, queueVars,
                       chainVars, presenceVars, replyVars, workVars, shopVars, transferVars>>

\* UserSequentialProcessor._process_single_message on a text event, with or
\* without a transfer keyword, at clock value now.
HoursMessage ==
    \E now \in ClockTimes, from_uid \in FromUids, kw \in BOOLEAN :
        LET ev == [ type |-> "TEXT", channel |-> "pinduoduo", keyword |-> kw,
                    hours |-> IF is_business_hours(bh_hours, now)
                              THEN "open" ELSE "closed",
                    outcome |-> "true" ]
            ran == run_handlers(1, ev) IN
        /\ bh_n < BhMaxEvents
        /\ bh_n' = bh_n + 1
        /\ bh_now' = now
        /\ bh_from' = from_uid
        /\ bh_invoked' = ran
        /\ bh_sent' = IF ran # << >> /\ ran[1] = "BusinessHoursHandler"
                      THEN << <<from_uid, NonBusinessText(bh_hours)>> >>
                      ELSE << >>
        /\ UNCHANGED bh_hours
        /\ UNCHANGED <<decodeVars, routeVars, reloginVars, sessionVars, pipeVars, queueVars,
                       chainVars, presenceVars, replyVars, workVars, shopVars, transferVars>>

-----------------------------------------------------------------------------

Init ==
    /\ DecodeInit /\ RouteInit /\ ReloginInit /\ SessionInit /\ PipeInit /\ QueueInit
    /\ ChainInit /\ PresenceInit /\ ReplyInit /\ WorkInit
    /\ ShopInit
    /\ TransferInit
    /\ HoursInit

NextDecode == DecodeFrame
SpecDecode == Init /\ [][NextDecode]_vars

NextRoute == ProcessWebsocketMessage \/ ProcessMalformedFrame \/ RouteConsume
SpecRoute == Init /\ [][NextRoute]_vars

NextRelogin ==
    \E c \in Callers :
        \/ RlCall(c)
        \/ RlRequest(c)
        \/ RlRefreshReturns(c)
        \/ RlLoginReturns(c)
SpecRelogin == Init /\ [][NextRelogin]_vars

\* One call on its own: a BaseRequest instance shares nothing with other
\* instances but the cookies in the database, which it reads when it is
\* built and writes after a refresh.
NextCall ==
    \/ RlCall(1)
    \/ RlRequest(1)
    \/ RlRefreshReturns(1)
    \/ RlLoginReturns(1)
SpecCall == Init /\ [][NextCall]_vars

NextSession ==
    \/ \E a \in Accounts : EditAccount(a) \/ StartAutoReply(a) \/ StopAutoReplyCall(a)
    \/ StopAutoReplyReturn
    \/ StopAllCall
    \/ StopAllReturn
    \/ DeliverSignal
    \/ \E t \in Threads :
          \/ ThreadRun(t)
          \/ ConnectSucceeds(t)
          \/ ConnectFails(t)
          \/ SessionEnds(t)
          \/ StopAccount(t)
    \/ StopConsumer
SpecSession == Init /\ [][NextSession]_vars

\* What the threads and the main thread do without being asked: a started
\* thread runs, a connection attempt returns, a session whose stop event is
\* set or whose socket was closed by stop_account leaves asyncio.wait, a
\* wait(5000) returns, a queued signal is delivered. When the peer closes a socket and when an operation is called
\* is not the program's to decide.
SessionFairness ==
    /\ \A t \in Threads :
          /\ WF_vars(ThreadRun(t))
          /\ WF_vars(ConnectSucceeds(t) \/ ConnectFails(t))
          /\ WF_vars(SessionEnds(t) /\ (ss_thread[t].stop_event \/ ss_thread[t].ws = "none"))
    /\ WF_vars(StopAutoReplyReturn)
    /\ WF_vars(StopAllReturn)
    /\ WF_vars(DeliverSignal)
SpecSessionLive == SpecSession /\ SessionFairness

NextPipe ==
    \/ \E u \in FromUids : Put(u)
    \/ RunConsumer
    \/ RunDispatch
    \/ RunWorker
    \/ \E w \in Workers : ExecDone(w) \/ TimerFire(w)
    \/ ReaperFire
    \/ RunReaper
SpecPipe == Init /\ [][NextPipe]_vars

\* One dispatcher on its own: the events of one end user, without the
\* reaper.
NextDispatcher ==
    \/ Put("U1")
    \/ RunConsumer
    \/ RunDispatch
    \/ RunWorker
    \/ \E w \in Workers : ExecDone(w) \/ TimerFire(w)

\* What the event loop does without being asked: a ready task runs, an
\* executor call returns, and the 30 s of a wait_for that is still waiting
\* run out. When an event is put is not the program's to decide.
DispatcherFairness ==
    /\ WF_vars(RunConsumer)
    /\ WF_vars(RunDispatch)
    /\ WF_vars(RunWorker)
    /\ \A w \in Workers : WF_vars(ExecDone(w)) /\ WF_vars(TimerFire(w))
SpecDispatcherLive == Init /\ [][NextDispatcher]_vars /\ DispatcherFairness

\* One dispatcher with the outcomes of its handle calls and the teardown
\* of the consumer.
NextWorkerTask ==
    \/ Put("U1")
    \/ RunConsumer
    \/ RunDispatch
    \/ RunWorker
    \/ \E w \in Workers : HandleEnds(w) \/ TimerFire(w)
    \/ StopConsumerTask
SpecWorker == Init /\ [][NextWorkerTask]_vars

NextShop == \E a \in ShopAccounts : ShStart(a) \/ ShEnd(a)
SpecShop == Init /\ [][NextShop]_vars

NextTransfer == TransferMessage
SpecTransfer == Init /\ [][NextTransfer]_vars

NextHours == ConfigureHours \/ HoursMessage
SpecHours == Init /\ [][NextHours]_vars

NextQueue ==
    \/ MqPut
    \/ \E g \in Getters : MqGet(g) \/ MqGetResume(g) \/ MqGetTimeout(g)
    \/ MqClose
    \/ MqClear
SpecQueue == Init /\ [][NextQueue]_vars

NextChain == ProcessSingleMessage
SpecChain == Init /\ [][NextChain]_vars

NextPresence ==
    \E t \in StatusThreads :
        \/ SetStatusStart(t)
        \/ SetStatusPlatform(t)
        \/ SetStatusStore(t)
SpecPresence == Init /\ [][NextPresence]_vars

NextReply ==
    \/ RpMakeHandler
    \/ \E i \in Invocations :
          \/ \E k \in FromUids : RpHandle(i, k)
          \/ RpGetSession(i)
          \/ RpCreateConversation(i)
          \/ RpCreateSession(i)
          \/ RpChat(i)
          \/ RpSendReply(i)
SpecReply == Init /\ [][NextReply]_vars

-----------------------------------------------------------------------------
(* The routing policy and the decoding table as the specification states   *)
(* them (spec.md, sections 3 and 4.3).                                     *)

PolicyImmediateKinds ==
    { "AUTH", "WITHDRAW", "SYSTEM_STATUS", "SYSTEM_HINT", "MALL_CS",
      "SYSTEM_BIZ", "MALL_SYSTEM_MSG", "TRANSFER" }

PolicyQueuedKinds ==
    { "TEXT", "IMAGE", "VIDEO", "EMOTION", "GOODS_INQUIRY", "ORDER_INFO",
      "GOODS_CARD", "GOODS_SPEC" }

DecodingTable(f) ==
    IF f.role = "mall_cs" THEN "MALL_CS"
    ELSE CASE f.response = "push" /\ f.type = 0 /\ f.sub_type = 1 -> "ORDER_INFO"
           [] f.response = "push" /\ f.type = 0 /\ f.sub_type = 0 -> "GOODS_INQUIRY"
           [] f.response = "push" /\ f.type = 0 /\ f.sub_type \notin {0, 1} -> "TEXT"
           [] f.response = "push" /\ f.type = 1 -> "IMAGE"
           [] f.response = "push" /\ f.type = 14 -> "VIDEO"
           [] f.response = "push" /\ f.type = 1002 -> "WITHDRAW"
           [] f.response = "push" /\ f.type = 5 -> "EMOTION"
           [] f.response = "push" /\ f.type = 64 -> "GOODS_SPEC"
           [] f.response = "push" /\ f.type = 24 -> "TRANSFER"
           [] f.response = "push"
                /\ f.type \notin {0, 1, 14, 1002, 5, 64, 24} -> "SYSTEM_STATUS"
           [] f.response = "auth" -> "AUTH"
           [] f.response = "mall_system_msg" -> "MALL_SYSTEM_MSG"
           [] f.response = "other" -> "SYSTEM_STATUS"

RtItems ==
    { rt_queue[i] : i \in 1..Len(rt_queue) } \cup
    UNION { { rt_inbox[k][i] : i \in 1..Len(rt_inbox[k]) } : k \in UserIds }

\* C8: routing policy. An event of an immediate kind is never in the account
\* queue or in a processor inbox; an event of a queued kind is put into the
\* account queue and from there only into the inbox of its own user id; an
\* event routed neither way has no effect (no send, no handler call, nothing
\* queued).
C8_RoutingPolicy ==
    /\ \A k \in PolicyImmediateKinds : ~should_queue_message(k)
    /\ \A k \in PolicyQueuedKinds :
          should_queue_message(k) /\ ~should_process_immediately(k)
    /\ \A it \in RtItems : it[1] \in PolicyQueuedKinds
    /\ \A k \in UserIds : \A i \in 1..Len(rt_inbox[k]) :
          get_user_id(rt_inbox[k][i][2]) = k
    /\ rt_nframes > 0 =>
          /\ rt_last.kind \in PolicyImmediateKinds => rt_last.route # "queued"
          /\ rt_last.kind \in PolicyQueuedKinds =>
                /\ rt_last.route = "queued"
                /\ <<rt_last.kind, rt_last.uid>> \in RtItems
          /\ rt_last.route = "ignored" =>
                /\ rt_last.sent = << >>
                /\ rt_last.immediate_calls = 0
                /\ <<rt_last.kind, rt_last.uid>> \notin RtItems

\* A queued event has travelled through the account queue into the inbox of
\* its user, and nothing is left in the account queue.
C8_Witness ==
    /\ rt_last.route = "queued"
    /\ rt_last.kind = "GOODS_SPEC"
    /\ rt_queue = << >>
    /\ <<rt_last.kind, rt_last.uid>> \in
          { rt_inbox[get_user_id(rt_last.uid)][i] :
              i \in 1..Len(rt_inbox[get_user_id(rt_last.uid)]) }

\* C9: every event of kind Auth, Withdraw, SystemStatus, SystemHint, MallCs,
\* SystemBiz, MallSystemMsg or Transfer is classified as immediate and passed
\* to _handle_immediate_message exactly once.
C9_ImmediateHandledOnce ==
    /\ \A k \in PolicyImmediateKinds : should_process_immediately(k)
    /\ (rt_nframes > 0 /\ rt_last.kind \in PolicyImmediateKinds) =>
          (rt_last.route = "immediate" /\ rt_last.immediate_calls = 1)

\* C10: the decoder returns the kind of the decoding table for every frame,
\* with the mall_cs short-circuit, and is total on unknown codes.
C10_DecoderTable ==
    /\ dec_kind \in ContextType
    /\ dec_kind = DecodingTable(dec_frame)

\* A frame of another seat whose type code alone would decode to TEXT.
C10_Witness ==
    /\ dec_frame.role = "mall_cs"
    /\ dec_frame.response = "push"
    /\ dec_frame.type = 0
    /\ dec_frame.sub_type = 2
    /\ dec_kind = "MALL_CS"

InRelogin(c) == rl_pc[c] \in {"refresh", "login"}

\* C7: credential-refresh convergence. At any time at most one
\* _relogin_and_update_cookies is in progress for the account; callers that
\* meet session-expired while one is in progress wait for its result.
C7_OneReloginAtATime ==
    Cardinality({ c \in Callers : InRelogin(c) }) <= 1


\* C4: session uniqueness. As long as no stop or stop_all was called for an
\* account and none of its threads has ended, all start calls made for it
\* have produced exactly one AutoReplyThread: the first call returned True
\* and every later, overlapping call returned False.
C4_SessionUniqueness ==
    \A a \in Accounts :
        ( /\ ~ss_hist[a].stopped
          /\ \A t \in ThreadsOf(a) : ss_thread[t].st \in LiveStates
          /\ ss_hist[a].nstart >= 1 )
        => /\ ss_hist[a].naccept = 1
           /\ Cardinality(ThreadsOf(a)) = 1
           /\ running_accounts[a] \in ThreadsOf(a)

\* Two start calls were made while the first session was connecting or
\* running: one accepted, one rejected.
C4_Witness ==
    \E a \in Accounts :
        /\ ~ss_hist[a].stopped
        /\ ss_hist[a].nstart = 2
        /\ ss_hist[a].naccept = 1
        /\ ss_op.name = "start" /\ ss_op.result = "false"
        /\ \E t \in ThreadsOf(a) : ss_thread[t].st = "open"

\* C5: after any sequence of start, stop, stop_all, connection-failure and
\* thread-finished events, every account has at most one live session, a
\* thread whose PDDChannel.init has not returned.
C5_OneLiveSession ==
    \A a \in Accounts : Cardinality(LiveThreadsOf(a)) <= 1

C6_ReachStopAccountTwice ==
    /\ ss_op.name = "stop_account" /\ ss_op.after_same
    /\ \E t \in Threads : ss_thread[t].st = "open" /\ ss_thread[t].after_stop

\* stop_consumer was called twice on a queue that had a running consumer.
C6_ReachStopConsumerTwice ==
    /\ ss_op.name = "stop_consumer" /\ ss_op.after_same
    /\ cm_consumer.exists


\* C1: per-user FIFO. Any two messages of the same user whose handler chains
\* have been entered were entered in the order of their put calls.
C1_PerUserFIFO ==
    \A i, j \in 1..Len(pp_started) :
        (i < j /\ pp_user[pp_started[i]] = pp_user[pp_started[j]])
        => pp_started[i] < pp_started[j]

\* C2: at most one worker per user. At most one handler-chain invocation is
\* in progress for a user at any time (so no handler starts before the one
\* of its predecessor has returned).
C2_OneInvocationPerUser ==
    \A u \in FromUids :
        Cardinality({ w \in Workers : InHandler(w) /\ pp_user[pp_worker[w].msg] = u }) <= 1

\* C3: concurrency bound. The handler-chain invocations in progress across
\* all users number at most max_concurrent.
C3_ConcurrencyBound ==
    Cardinality({ w \in Workers : InHandler(w) }) <= max_concurrent

\* The bound is exceeded by invocations of different users alone.
C3_ExceededAcrossUsers ==
    /\ Cardinality({ w \in Workers : InHandler(w) }) > max_concurrent
    /\ C2_OneInvocationPerUser


\* C11: queue backpressure. Unless clear was called, every item for which
\* put returned an id is still in the queue or was returned by exactly one
\* get: no put discards an item put before.
C11_NoItemDiscarded ==
    ~mq_cleared =>
        \A i \in 1..Len(mq_accepted) :
            Cardinality({ k \in 1..Len(mq_queue) : mq_queue[k] = i })
            + Cardinality({ k \in 1..Len(mq_got) : mq_got[k] = i }) = 1

\* C12: strict FIFO. Unless clear was called, the items returned by get are
\* a prefix of the items accepted by put, in the same order.
C12_GotIsPrefixOfAccepted ==
    ~mq_cleared =>
        /\ Len(mq_got) <= Len(mq_accepted)
        /\ \A k \in 1..Len(mq_got) : mq_got[k] = mq_accepted[k]

\* C13: queue close. After close, a put raises and leaves the queue as it
\* was; no getter stays blocked; a get returns the head of the queue while
\* there is one, and None without waiting once the queue is empty.
C13_Close ==
    /\ mq_closed => \A g \in Getters : mq_getter[g] # "blocked"
    /\ (mq_last.op = "put" /\ mq_last.closed)
           => (mq_last.result = None /\ ~mq_last.changed)
    /\ (mq_last.op = "get" /\ mq_last.closed /\ ~mq_last.waited)
           => mq_last.result = mq_last.head

\* A getter blocked on the empty queue was woken by close and returned None,
\* after items put before the close had been returned.
C13_Witness ==
    /\ mq_closed
    /\ mq_last.op = "get" /\ mq_last.closed /\ mq_last.waited /\ mq_last.result = 0
    /\ Len(mq_got) >= 1

\* put was refused on a closed queue that still held an item.
C13_ReachPutRefused ==
    mq_last.op = "put" /\ mq_last.closed /\ mq_queue # << >>


\* The handlers before position i whose can_handle did not return false.
ChainEarlier(i) ==
    { j \in 1..(i - 1) : can_handle(handler_chain[j], ch_event) # "false" }

\* C14: handler chain early-exit. handle is called on at most one handler,
\* and on none but the first handler in chain order whose can_handle returns
\* true, whether its handle succeeds, fails or raises; that handler is
\* called whenever no can_handle before it raised.
C14_EarlyExit ==
    /\ Len(ch_invoked) <= 1
    /\ \A i \in 1..Len(handler_chain) :
          ( /\ can_handle(handler_chain[i], ch_event) = "true"
            /\ ChainEarlier(i) = {} )
          => ch_invoked = << handler_chain[i] >>
    /\ ch_invoked # << >> =>
          \E i \in 1..Len(handler_chain) :
              /\ ch_invoked[1] = handler_chain[i]
              /\ can_handle(handler_chain[i], ch_event) = "true"
              /\ ChainEarlier(i) = {}

\* Outside business hours a text that also asks for a human agent went to
\* BusinessHoursHandler alone, whose handle failed.
C14_Witness ==
    /\ ch_event.hours = "closed" /\ ch_event.type = "TEXT" /\ ch_event.keyword
    /\ ch_event.channel = "pinduoduo" /\ ch_event.outcome = "false"
    /\ ch_invoked = << "BusinessHoursHandler" >>
    /\ ~ch_handled

-----------------------------------------------------------------------------
(* The platform client: session expiry and retries of one call.            *)

Ok200(o) == o.kind = "response" /\ o.status = 200 /\ o.body = "ok"

\* HTTP 200 with {success:false, result:{error_code:43001, error:"会话已过期"}}.
WireExpired(o) == o.kind = "response" /\ o.status = 200 /\ o.body = "expired_result"

CycleSucceeded(c) == rl_cycle[c] \in {"refreshed", "logged_in"}

LoginCallsOf(c, which) ==
    { i \in 1..Len(login_calls) : login_calls[i] = <<c, which>> }

\* C15: a call whose first response is HTTP 200 with the session-expired
\* envelope {success:false, result:{error_code:43001, error:...}} and whose
\* later responses are successes ends after exactly one refresh cycle, with
\* the new cookies stored, the request reissued once and the successful body
\* returned.
C15_ScenarioS5 ==
    \A c \in Callers :
        ( /\ rl_pc[c] = "done"
          /\ WireExpired(rl_first[c])
          /\ (rl_nrequests[c] > 1 => Ok200(rl_last[c])) )
        => /\ rl_ncycles[c] = 1
           /\ CycleSucceeded(c)
           /\ Cardinality(LoginCallsOf(c, "refresh")) = 1
           /\ rl_cookies[c] # 0
           /\ db_cookies # 0
           /\ rl_reissued[c] = 1
           /\ rl_result[c] = "ok"

\* C16: one call makes at most one refresh cycle; the cycle calls the silent
\* refresh first and the full login only after the refresh gave no cookies;
\* when the cycle failed, or the reissued request is answered session-expired
\* again, the call has returned the session-expired body, with no second
\* cycle and no further request.
C16_OneRefreshCycle ==
    \A c \in Callers :
        /\ rl_ncycles[c] <= 1
        /\ Cardinality(LoginCallsOf(c, "refresh")) = rl_ncycles[c]
        /\ Cardinality(LoginCallsOf(c, "login")) <= 1
        /\ \A i \in LoginCallsOf(c, "login") :
               /\ \E j \in LoginCallsOf(c, "refresh") : j < i
               /\ rl_cycle[c] \in {"running", "logged_in", "failed"}
        /\ rl_pc[c] = "login" => LoginCallsOf(c, "login") # {}
        /\ rl_cycle[c] = "refreshed" => LoginCallsOf(c, "login") = {}
        /\ rl_cycle[c] = "failed" =>
               /\ rl_pc[c] = "done"
               /\ rl_result[c] = "expired_top"
               /\ rl_reissued[c] = 0
        /\ ( /\ CycleSucceeded(c)
             /\ rl_reissued[c] >= 1
             /\ rl_last[c].kind = "response"
             /\ session_expired_seen(rl_last[c]) ) =>
               /\ rl_pc[c] = "done"
               /\ rl_result[c] = "expired_top"

\* A call that returned the session-expired body of its reissued request,
\* after a cycle in which the refresh failed and the login succeeded.
C16_Witness ==
    \E c \in Callers :
        /\ rl_pc[c] = "done"
        /\ rl_cycle[c] = "logged_in"
        /\ rl_reissued[c] >= 1
        /\ rl_last[c].kind = "response"
        /\ session_expired_seen(rl_last[c])
        /\ rl_result[c] = "expired_top"

\* A call that returned the session-expired body because its cycle failed.
C16_ReachCycleFailed == \E c \in Callers : rl_cycle[c] = "failed"

\* C17: a call whose refresh cycle succeeded has issued the request again
\* with the new cookies before it returns, however many attempts it had
\* used before the session-expired response.
C17_ReissuedAfterRefresh ==
    \A c \in Callers :
        (rl_pc[c] = "done" /\ CycleSucceeded(c)) => rl_reissued[c] >= 1

\* What ends an attempt that may be followed by another one: a transport
\* error, or a response with status 5xx, 408 or 429.
RetryableEnd(o) ==
    \/ o.kind = "exception" /\ o.retryable
    \/ o.kind = "response" /\ (o.status >= 500 \/ o.status \in {408, 429})

\* Any other 4xx status, or HTTP 200 with a body that is not session-expired.
FinalEnd(o) ==
    /\ o.kind = "response"
    /\ \/ o.status >= 400 /\ o.status < 500 /\ o.status \notin {408, 429}
       \/ o.status = 200 /\ o.body \in {"ok", "not_json"}

C19_AttemptBound ==
    \A c \in Callers :
        rl_nrequests[c] <= max_retries + (IF CycleSucceeded(c) THEN 1 ELSE 0)

-----------------------------------------------------------------------------
(* Setting the presence of an account.                                     *)

\* C20: a step of SetStatusThread.run changes the accounts table only after
\* its platform call succeeded, and then only the status of its own row,
\* to the target status; a run whose platform call failed, or whose
\* account_data has no cookies, has emitted a failure and left the table as
\* it was; a run whose store write failed after the platform call succeeded
\* has emitted the database failure.
C20_SetPresence ==
    /\ pr_last.after # pr_last.before =>
           /\ pr_last.step = "store"
           /\ pr_last.api = "success_true"
           /\ pr_signals[pr_last.thread] = "success"
           /\ \E u \in StoredUsers, st \in TargetStatuses :
                  pr_last.after = [ pr_last.before EXCEPT ![u].status = st ]
    /\ \A t \in StatusThreads :
           /\ pr_thread[t].pc = "store" => pr_platform \in TargetStatuses
           /\ pr_signals[t] = "success" => pr_db[pr_thread[t].user_id].status # 0
    /\ (pr_last.step = "platform" /\ pr_last.api # "success_true") =>
           /\ pr_signals[pr_last.thread] \in {"failed: no cookies", "failed: platform"}
           /\ pr_thread[pr_last.thread].pc = "done"
           /\ pr_last.after = pr_last.before
           /\ pr_db = pr_last.before
    /\ (pr_last.step = "store" /\ pr_last.store = "failed") =>
           /\ pr_signals[pr_last.thread] = "failed: database"
           /\ pr_db = pr_last.before

\* One run has written the target status to its row after the platform call
\* succeeded, and the latest step is a run that failed on the platform.
C20_Witness ==
    /\ \E t \in StatusThreads :
          /\ pr_signals[t] = "success"
          /\ pr_db[pr_thread[t].user_id].status = pr_thread[t].target_status
    /\ pr_last.step = "platform"
    /\ pr_last.api = "success_false"

\* A run whose store write failed after the platform accepted the status.
C20_ReachStoreFailed ==
    /\ pr_last.step = "store"
    /\ pr_last.store = "failed"
    /\ pr_platform # pr_db["a1"].status

-----------------------------------------------------------------------------
(* Starting, stopping and stopping all sessions.                           *)

\* C21: an account that has no row in the accounts table, or whose status is
\* not online, has no key in running_accounts, no consumer installed for its
\* queue and no thread that is connecting or connected.
C21_StartRejects ==
    \A a \in Accounts :
        db_accounts[a] # "online" =>
            /\ running_accounts[a] = 0
            /\ ~cm_consumer.exists
            /\ \A t \in ThreadsOf(a) : ss_thread[t].st \notin {"connecting", "open"}

\* An account whose status is offline with a connected session.
C21_ReachOfflineConnected ==
    \E a \in Accounts :
        /\ db_accounts[a] = "offline"
        /\ \E t \in ThreadsOf(a) : ss_thread[t].ws = "open"

\* C22: when a session that was stopped has ended, its transport is closed,
\* the account queue is closed and no consumer task is registered for the
\* queue.
C22_StopPostcondition ==
    \A t \in Threads :
        (ss_thread[t].st = "finished" /\ ss_thread[t].stop_event) =>
            /\ ss_thread[t].ws = "none"
            /\ cm_queue = "closed"
            /\ cm_consumer.task = 0

\* C23: when stop_all has returned, running_accounts is empty; and every
\* registered thread that is running while stop_all waits ends eventually.
C23_StopAllStopsEverySession ==
    /\ [](ss_op.name = "stop_all" => \A a \in Accounts : running_accounts[a] = 0)
    /\ \A t \in Threads :
          ( /\ ss_main = <<"stop_all_wait">>
            /\ isRunning(ss_thread[t])
            /\ running_accounts[ss_thread[t].acct] = t )
          ~> (ss_thread[t].st = "finished")

-----------------------------------------------------------------------------
(* Replies to the end-user.                                                *)

\* C24: the requests of one send_text call deliver at most one message to
\* the end-user.
C24_NoDuplicateReply ==
    \A c \in Callers : rl_delivered[c] <= 1

\* C25: every handle() invocation of the AI reply handler that has returned
\* made exactly one send_text call: with the agent's answer when the agent
\* answered, with a sentinel text otherwise.
C25_OneSendPerEvent ==
    \A i \in Invocations :
        rp_inv[i].pc = "done" =>
            /\ Len(rp_inv[i].sends) = 1
            /\ IF rp_inv[i].agent = "answer"
               THEN rp_inv[i].sends[1] = AnswerText
               ELSE rp_inv[i].sends[1] \in Sentinels

\* C25: with a bot, a returned invocation has sent one text.
C25_OneSendWithBot ==
    \A i \in Invocations :
        (rp_bot = "coze" /\ rp_inv[i].pc = "done") => Len(rp_inv[i].sends) = 1

\* C26: for every user key at most one conversation was ever created, and
\* every agent call made for the key uses the id stored for the key.
C26_ConversationUniqueness ==
    \A k \in FromUids :
        /\ Cardinality(rp_created[k]) <= 1
        /\ \A i \in Invocations :
              (rp_inv[i].key = k /\ rp_inv[i].agent # "none") =>
                  rp_inv[i].conv = rp_sessions[k]

\* C26: two conversations for one key with invocations that never overlap
\* (the second one's SELECT failed, or the first one's INSERT did).
C26_ReachTwoConversationsSequential ==
    \E k \in FromUids :
        /\ Cardinality(rp_created[k]) = 2
        /\ rp_inv[1].key = k /\ rp_inv[1].pc = "done"
        /\ rp_inv[2].key = k /\ rp_inv[2].pc = "create_session"
        /\ rp_inv[1].conv = 1

-----------------------------------------------------------------------------
(* The per-user dispatcher.                                                *)

\* The events that lie in the inbox of a dispatcher.
InInbox(m) == \E p \in Procs : \E i \in 1..Len(pp_proc[p].inbox) : pp_proc[p].inbox[i] = m
Started(m) == \E i \in 1..Len(pp_started) : pp_started[i] = m

\* C27: an event that add_message has put into the inbox of a dispatcher
\* eventually enters its handler chain.
C27_DispatcherLiveness ==
    \A m \in Msgs : InInbox(m) ~> Started(m)

\* C27: an event lies in an inbox, the dispatcher has no worker that is
\* scheduled, waiting or in a handler, no task is ready, and further events
\* could still be put.
C27_ReachStuck ==
    \E p \in Procs :
        /\ pp_proc[p].inbox # << >>
        /\ ~pp_proc[p].is_processing
        /\ \A w \in Workers : pp_worker[w].proc = p => pp_worker[w].pc = "done"
        /\ pp_ready = << >>
        /\ \E m \in Msgs : pp_user[m] = "none"

\* A dispatcher that the reaper has removed from user_processors.
Removed(p) == pp_proc[p].made /\ pp_user_processors[pp_proc[p].user] # p

\* C28: a removed dispatcher has an empty inbox and no worker that is
\* scheduled or in a handler, and no event enters a handler chain twice.
C28_ReaperSafety ==
    /\ \A p \in Procs :
          Removed(p) =>
              /\ pp_proc[p].inbox = << >>
              /\ \A w \in Workers :
                    pp_worker[w].proc = p => pp_worker[w].pc \in {"none", "done"}
    /\ \A i, j \in 1..Len(pp_started) : pp_started[i] = pp_started[j] => i = j

\* C28: the reaper removes a dispatcher in the loop iteration in which its
\* first worker was created: the worker is cancelled before it has run and
\* the event stays in the inbox of the removed dispatcher.
C28_ReachLostBeforeFirstRun ==
    \E p \in Procs :
        /\ Removed(p)
        /\ pp_proc[p].inbox # << >>
        /\ \A w \in Workers : pp_worker[w].proc = p => pp_worker[w].pc = "done"
        /\ \A i \in 1..Len(pp_started) : pp_user[pp_started[i]] # pp_proc[p].user

FailedOutcomes == { "False", "raise" }

\* C29: the step that a worker takes after a handle call of it has failed
\* leaves the worker alive (in the next handler or waiting in get()), leaves
\* is_processing as it was, and starts the handler chain of the next event
\* of the inbox if there is one.
C29_FailureKeepsWorker ==
    [][ \A w \in Workers :
          ( /\ pp_worker[w].pc \in {"resumable", "raised"}
            /\ wk_outcome[pp_worker[w].msg] \in FailedOutcomes
            /\ pp_worker'[w].pc # pp_worker[w].pc
            /\ pp_consumer' = pp_consumer )
          => LET p == pp_worker[w].proc IN
             /\ pp_worker'[w].pc \in {"handling", "waiting"}
             /\ pp_proc'[p].is_processing = pp_proc[p].is_processing
             /\ pp_proc[p].inbox # << >> =>
                    \E i \in 1..Len(pp_started') : pp_started'[i] = Head(pp_proc[p].inbox) ]_vars

\* C29: a handle call has failed and the same worker, still the dispatcher's
\* worker with is_processing set, is in the handler of the next event.
C29_Witness ==
    \E w \in Workers :
        /\ pp_worker[w].pc = "handling"
        /\ pp_worker[w].msg = 2
        /\ wk_outcome[1] \in FailedOutcomes
        /\ pp_proc[pp_worker[w].proc].is_processing
        /\ pp_proc[pp_worker[w].proc].processor_task = w
        /\ pp_started = <<1, 2>>

\* C30: no handle call that is in flight when the consumer is stopped is
\* aborted.
C30_CooperativeCancellation ==
    \A m \in Msgs :
        wk_outcome[m] \notin {"cancelled in the agent call", "cancelled before the send"}

\* C30: a handle call aborted after the executor had returned the reply.
C30_ReachAbortedBeforeSend ==
    \E m \in Msgs : wk_outcome[m] = "cancelled before the send"

-----------------------------------------------------------------------------
(* Teardown and restart.                                                   *)

\* C31: once the consumer is stopped and the registry cleared, no worker
\* task is scheduled, waiting or in a handler, and no inbox holds an event
\* that a worker could still take.
C31_StopLeavesNoWorker ==
    pp_consumer = "stopped" =>
        \A w \in Workers : pp_worker[w].pc \in {"none", "done"}

\* C31: after the teardown a worker that was not cancelled is in a handler.
C31_ReachHandlerAfterStop ==
    /\ pp_consumer = "stopped"
    /\ \E w \in Workers : pp_worker[w].pc = "handling"

\* C32: a session that leaves the open state, on whatever path, has ended
\* with its socket gone and the consumer of its queue stopped; a session
\* that has ended stays ended (nothing reconnects); and the thread of an
\* ended session eventually is not in running_accounts.
C32_TransportCloseEndsSession ==
    /\ [][ \A t \in Threads :
            /\ (ss_thread[t].st = "open" /\ ss_thread'[t].st # "open") =>
                  /\ ss_thread'[t].st = "finished"
                  /\ ss_thread'[t].ws = "none"
                  /\ ~cm_consumer'.is_running
                  /\ cm_consumer'.task = 0
            /\ ss_thread[t].st = "finished" => ss_thread'[t] = ss_thread[t] ]_vars
    /\ \A t \in Threads :
          (ss_thread[t].st = "finished")
          ~> (ss_thread[t].st = "finished" /\ running_accounts[ss_thread[t].acct] # t)

\* C32: a session whose transport closed while no stop was requested has
\* ended, the consumer is stopped and its thread has left the registry.
C32_Witness ==
    \E t \in Threads :
        /\ ss_thread[t].st = "finished"
        /\ ss_thread[t].ended = "message_loop"
        /\ ~ss_thread[t].stop_event
        /\ ~cm_consumer.is_running
        /\ running_accounts[ss_thread[t].acct] = 0
        /\ ss_signals = << >>

\* C33: when init has set up the consumer of a session, the queue has a
\* consumer that is running and whose task is registered.
C33_RestartInstallsConsumer ==
    [][ \A t \in Threads :
          (ss_thread[t].st = "started" /\ ss_thread'[t].st = "connecting") =>
              /\ cm_consumer'.exists
              /\ cm_consumer'.is_running
              /\ cm_consumer'.task # 0 ]_vars

\* C33: the first session has ended, the account was started again and its
\* socket is open, and the consumer of the queue is not running.
C33_ReachRestartNoConsumer ==
    /\ ss_thread[1].st = "finished"
    /\ ss_thread[2].st = "open"
    /\ running_accounts[ss_thread[2].acct] = 2
    /\ ~cm_consumer.is_running
    /\ cm_consumer.task = 0

\* C34: two running accounts never use the same queue, and when the
\* session of one account ends, the consumer and the queue of every other
\* running account are as they were.
C34_AccountIsolation ==
    /\ [](\A a, b \in ShopAccounts :
            (a # b /\ sh_session[a] = "running" /\ sh_session[b] = "running")
                => queue_name(a) # queue_name(b))
    /\ [][ \A a, b \in ShopAccounts :
             ( /\ a # b
               /\ sh_session[a] = "running" /\ sh_session'[a] = "ended"
               /\ sh_session[b] = "running" )
             => /\ sh_consumers'[queue_name(b)] = sh_consumers[queue_name(b)]
                /\ sh_queues'[queue_name(b)] = sh_queues[queue_name(b)] ]_vars

\* C34: the frame part alone: the end of one session changes nothing that
\* another running account uses.
C34_EndLeavesOthers ==
    [][ \A a, b \in ShopAccounts :
          ( /\ a # b
            /\ sh_session[a] = "running" /\ sh_session'[a] = "ended"
            /\ sh_session[b] = "running" )
          => sh_consumers'[queue_name(b)] = sh_consumers[queue_name(b)] ]_vars

\* C34: an account of the shop is running and the consumer of its queue was
\* stopped by the end of another account's session.
C34_ReachRunningWithoutConsumer ==
    /\ sh_session["a1"] = "ended"
    /\ sh_session["a2"] = "running"
    /\ sh_last = [ acct |-> "a1", step |-> "end" ]
    /\ ~sh_consumers[queue_name("a2")].is_running

\* C35: a thread that is still running when stop_auto_reply has returned
\* True for its account eventually ends.
C35_StopEventuallyStops ==
    \A t \in Threads :
        ( /\ ss_op.name = "stop" /\ ss_op.result = "true"
          /\ ss_op.acct = ss_thread[t].acct
          /\ isRunning(ss_thread[t]) )
        ~> (ss_thread[t].st = "finished")

\* C35: stop_auto_reply has returned True, no stop was recorded by the
\* thread of the account, and its socket is open.
C35_ReachRunningAfterStop ==
    /\ ss_op.name = "stop" /\ ss_op.result = "true"
    /\ \E t \in Threads :
          /\ ss_thread[t].acct = ss_op.acct
          /\ ss_thread[t].st = "open"
          /\ ~ss_thread[t].stop_event
          /\ running_accounts[ss_op.acct] = 0

\* C36: a frame that is not valid JSON, or whose decoding raises, is dropped:
\* the step that processes it leaves the account queue, the dispatchers'
\* inboxes and the session state unchanged, makes no outbound call, and the
\* transport reader is still reading afterwards.
C36_MalformedFrameDropped ==
    [][ (rt_nframes' # rt_nframes /\ rt_last'.kind \in MalformedFrames) =>
            /\ rt_last'.route = "dropped"
            /\ rt_queue' = rt_queue
            /\ rt_inbox' = rt_inbox
            /\ sessionVars' = sessionVars
            /\ pipeVars' = pipeVars
            /\ rt_last'.sent = << >>
            /\ rt_last'.immediate_calls = 0
            /\ rt_reader' = "reading" ]_vars

\* A frame was dropped for an error other than JSONDecodeError, and the reader
\* then read and queued the next frame.
C36_Witness ==
    /\ rt_dropped = 1
    /\ rt_nframes = 2
    /\ rt_reader = "reading"
    /\ rt_last.route = "queued"

\* C37: for a text event with a transfer keyword the transfer handler fetches
\* the assignable seats, leaves out the seat's own id and calls the transfer
\* exactly once with the first id that remains; when no other seat remains
\* (the list is empty or holds only the seat itself) it sends the fixed
\* no-agent text to from_uid exactly once and transfers nothing; in both
\* cases the AI handler does not run for the event.
TrCalls(name) == { i \in DOMAIN tr_calls : tr_calls[i][1] = name }

C37_TransferToHuman ==
    tr_n > 0 =>
        LET others == available_cs_uids(tr_cs_list.keys) IN
        /\ Cardinality(TrCalls("getAssignCsList")) = 1
        /\ others # << >> =>
              /\ Cardinality(TrCalls("move_conversation")) = 1
              /\ \A i \in TrCalls("move_conversation") :
                    tr_calls[i] = <<"move_conversation", tr_from, others[1]>>
              /\ TrCalls("send_text") = {}
        /\ others = << >> =>
              /\ Cardinality(TrCalls("send_text")) = 1
              /\ \A i \in TrCalls("send_text") :
                    tr_calls[i] = <<"send_text", tr_from, NoAgentText>>
              /\ TrCalls("move_conversation") = {}
        /\ \A i \in DOMAIN tr_invoked : tr_invoked[i] # "AIAutoReplyHandler"

\* The same with the empty list left out: what holds of the code.
C37_ExceptEmptyList ==
    (tr_n > 0 /\ tr_cs_list.keys # << >>) =>
        LET others == available_cs_uids(tr_cs_list.keys) IN
        /\ others # << >> =>
              /\ Cardinality(TrCalls("move_conversation")) = 1
              /\ \A i \in TrCalls("move_conversation") :
                    tr_calls[i] = <<"move_conversation", tr_from, others[1]>>
              /\ TrCalls("send_text") = {}
        /\ others = << >> =>
              /\ Cardinality(TrCalls("send_text")) = 1
              /\ TrCalls("move_conversation") = {}
        /\ \A i \in DOMAIN tr_invoked : tr_invoked[i] # "AIAutoReplyHandler"

\* The list came back empty and the end user was told nothing.
C37_ReachEmptyListNoText ==
    /\ tr_n > 0
    /\ ~tr_cs_list.none
    /\ tr_cs_list.keys = << >>
    /\ TrCalls("send_text") = {}
    /\ tr_invoked = << "CustomerServiceTransferHandler" >>

\* C38: BusinessHoursHandler accepts an event iff the clock is outside the
\* closed interval from business.start to business.end (both bounds are
\* business hours), for every pair of HH:MM bounds; when it accepts, exactly
\* one non-business-hours text goes to from_uid and neither the transfer
\* handler nor the AI handler runs for the event.
SecondsOfDay(t) == (t[1] * MinutesPerHour + t[2]) * SecondsPerMinute + t[3]

BhAccepted == \E i \in DOMAIN bh_invoked : bh_invoked[i] = "BusinessHoursHandler"

C38_BusinessHours ==
    bh_n > 0 =>
        LET now == SecondsOfDay(bh_now)
            start == SecondsOfDay(strptime_time(bh_hours.start))
            end == SecondsOfDay(strptime_time(bh_hours.end)) IN
        /\ BhAccepted <=> (now < start \/ now > end)
        /\ BhAccepted =>
              /\ bh_sent = << <<bh_from, NonBusinessText(bh_hours)>> >>
              /\ bh_invoked = << "BusinessHoursHandler" >>
        /\ ~BhAccepted => bh_sent = << >>

\* An event one second after the end bound, with a transfer keyword in its
\* text, was accepted and answered with the non-business-hours text.
C38_Witness ==
    /\ bh_n > 0
    /\ time_le(strptime_time(bh_hours.start), strptime_time(bh_hours.end))
    /\ bh_now = <<bh_hours.end[1], bh_hours.end[2], 1>>
    /\ BhAccepted
    /\ bh_sent = << <<bh_from, NonBusinessText(bh_hours)>> >>

\* C39: for every Withdraw event and every Transfer event the transport
\* reader itself issues exactly one send_text(from_uid, "[rose]"), and the
\* account queue and the dispatchers are left as they were: the event never
\* enters the queue or a dispatcher's inbox.
C39_WithdrawTransferInline ==
    /\ [][ (rt_nframes' # rt_nframes /\ rt_last'.kind \in {"WITHDRAW", "TRANSFER"}) =>
              /\ rt_last'.route = "immediate"
              /\ rt_last'.sent = << <<rt_last'.uid, "[rose]">> >>
              /\ rt_queue' = rt_queue
              /\ rt_inbox' = rt_inbox
              /\ pipeVars' = pipeVars ]_vars
    /\ [](/\ \A i \in DOMAIN rt_queue : rt_queue[i][1] \notin {"WITHDRAW", "TRANSFER"}
          /\ \A k \in UserIds : \A i \in DOMAIN rt_inbox[k] :
                rt_inbox[k][i][1] \notin {"WITHDRAW", "TRANSFER"})

\* A Transfer event of U2 arrived while an event of U1 was waiting in the
\* queue: one send to U2, the queue still holds U1's event only.
C39_Witness ==
    /\ rt_last.kind = "TRANSFER"
    /\ rt_last.uid = "U2"
    /\ rt_last.sent = << <<"U2", "[rose]">> >>
    /\ Len(rt_queue) = 1
    /\ rt_queue[1][2] = "U1"
    /\ rt_inbox[get_user_id("U2")] = << >>

\* C40: a slow user does not block other users. An event waits only in the
\* dispatcher of its own user and is handled by that dispatcher's worker, so
\* while a handler invocation for one user waits for the agent, an event of
\* another user can start and complete.
C40_CrossUserParallelism ==
    /\ \A p \in Procs : \A i \in DOMAIN pp_proc[p].inbox :
          pp_user[pp_proc[p].inbox[i]] = pp_proc[p].user
    /\ \A w \in Workers : InHandler(w) =>
          pp_user[pp_worker[w].msg] = pp_proc[pp_worker[w].proc].user
    /\ \A u \in FromUids : pp_user_processors[u] # 0 =>
          pp_proc[pp_user_processors[u]].user = u

\* The handler of U1's event m1 still waits for the agent; U2's event m2
\* started after m1 did and its handler has returned: U2's worker is back in
\* get().
C40_Witness ==
    \E w1, w2 \in Workers : \E i, j \in DOMAIN pp_started :
        /\ pp_worker[w1].pc = "handling"
        /\ pp_proc[pp_worker[w1].proc].user = "U1"
        /\ pp_started[i] = pp_worker[w1].msg
        /\ i < j
        /\ pp_user[pp_started[j]] = "U2"
        /\ pp_worker[w2].pc = "waiting"
        /\ pp_proc[pp_worker[w2].proc].user = "U2"
        /\ pp_proc[pp_worker[w2].proc].inbox = << >>

=============================================================================
